---- MODULE Spec2Model ----
(***************************************************************************)
(* Model of the SaferPlaces agent's tool execution state machine: the      *)
(* Agent Tools (argument inference, validation, confirmation gates,       *)
(* execution, reset), the generic Tool Handler Node, the Tool Interrupt   *)
(* Node, the chatbot router, the create-project runners and the           *)
(* GraphInterface that feeds user prompts / resume payloads to the graph. *)
(***************************************************************************)
EXTENDS Integers, Sequences, FiniteSets, TLC

VARIABLES
    messages,       \* BaseGraphState.messages of the thread
    node_params,    \* BaseGraphState.node_params of the thread
    node,           \* the graph node that runs next (END when the turn is over)
    suspended,      \* TRUE while the graph is paused inside a Tool Interrupt Node
    resume_value,   \* the Command(resume=...) payload delivered to the paused node
    tools,          \* per Agent Tool: execution_confirmed, output_confirmed, output
    callback,       \* base_tool_handler_node_callback.callback (which runner set it)
    gi_interrupt,   \* GraphInterface.interrupt
    pending,        \* interrupts raised to the user and not yet answered
    lastCall,       \* observation of the most recent tool.invoke(...)
    lastResume,     \* observation of the most recent resume of a paused tool call
    execCount,      \* per tool_call_id: how many times _execute ran for it
    declined,       \* tool_call_ids the user declined at the execution gate
    nextId,         \* next tool_call_id the model hands out
    nInputs,        \* user inputs (prompts and resume payloads) so far
    nCalls,         \* tool calls the language model has proposed so far
    runs,           \* total number of _execute runs (tags each computed output)
    layer_registry, \* BaseGraphState.layer_registry (each layer stands by its src)
    proposed,       \* the tool calls of the language model's latest reply, as proposed
    avaliable_tools, \* BaseGraphState.avaliable_tools of the thread
    bound,          \* the tools the chatbot bound the model to in its latest run
    sub_runs,       \* the sub-tool executions of the create-project run under way
    driver,         \* the method of GraphInterface that called G.stream last
    lr_update,      \* the latest update handed to the layer_registry reducer
    m_left,         \* merge_dictionaries: the argument left
    m_right,        \* merge_dictionaries: the argument right
    m_out,          \* merge_dictionaries: the value returned, once it has run
    streams,        \* the calls of GraphInterface.user_prompt under way, per request slot
    graph_registry, \* per thread_id: GraphInterface.interrupt and the paused tool call
    written_for,    \* per Agent Tool: the session its attributes were last written for
    events,         \* ChatHandler.events
    new_events,     \* ChatHandler.new_events
    chat_events,    \* per thread_id: GraphInterface.chat_events
    received,       \* per thread_id: the packets user_prompt has yielded to the caller
    turn            \* per thread_id: where its call of user_prompt stands

\* the variables that only the side specifications below change
chat == <<events, new_events, chat_events, received, turn>>
sessions == <<streams, graph_registry, written_for, chat>>
side == <<lr_update, m_left, m_right, m_out, sessions>>

vars == <<messages, node_params, node, suspended, resume_value, tools, callback,
          gi_interrupt, pending, lastCall, lastResume, execCount, declined, nextId, nInputs, nCalls, runs,
          layer_registry, proposed, avaliable_tools, bound, sub_runs, driver, side>>

----------------------------------------------------------------------------
\* Bounds of the model

MaxToolCalls == 2
MaxInputs == 2

----------------------------------------------------------------------------
\* Names (common/names.py)

END == "__end__"
CHATBOT == "chatbot"
CHATBOT_UPDATE_MESSAGES == "chatbot_update_messages"
DEMO_WEATHER_TOOL == "demo_weather_tool"
DEMO_TOOL_HANDLER == "demo_tool_handler"
DEMO_TOOL_INTERRUPT == "demo_tool_interrupt"
CREATE_PROJECT_MAIN == "create_project_main"
CREATE_PROJECT_TOOL_HANDLER == "create_project_tool_handler"
CREATE_PROJECT_TOOL_INTERRUPT == "create_project_tool_interrupt"
CREATE_PROJECT_SELECT_DTM_TOOL == "create_project_select_dtm_tool"
CREATE_PROJECT_SELECT_DTM_TOOL_RUNNER == "create_project_select_dtm_tool_runner"
CREATE_PROJECT_SELECT_BUILDINGS_TOOL == "create_project_select_buildings_tool"
CREATE_PROJECT_SELECT_BUILDINGS_TOOL_RUNNER == "create_project_select_buildings_tool_runner"
CREATE_PROJECT_SELECT_INFILTRATION_TOOL == "create_project_select_infiltration_tool"
CREATE_PROJECT_SELECT_INFILTRATION_TOOL_RUNNER == "create_project_select_infiltration_tool_runner"
CREATE_PROJECT_SELECT_LITHOLOGY_TOOL == "create_project_select_lithology_tool"
CREATE_PROJECT_SELECT_LITHOLOGY_TOOL_RUNNER == "create_project_select_lithology_tool_runner"
CREATE_PROJECT_SELECT_OTHER_LAYERS_TOOL == "create_project_select_other_layers_tool"
CREATE_PROJECT_SELECT_OTHER_LAYERS_TOOL_RUNNER == "create_project_select_other_layers_tool_runner"
SAFERPLACES_API_TOOL_HANDLER == "saferplaces_api_tool_handler"
SAFERPLACES_API_TOOL_INTERRUPT == "saferplaces_api_tool_interrupt"
DIGITAL_TWIN_TOOL == "digital_twin_tool"
SAFER_RAIN_TOOL == "safer_rain_tool"
SAFERCAST_API_TOOL_HANDLER == "safercast_api_tool_handler"
SAFERCAST_API_TOOL_INTERRUPT == "safercast_api_tool_interrupt"
ICON2I_INGESTOR_TOOL == "icon2i_ingestor_tool"
GEOSPATIAL_OPS_TOOL == "geospatial_ops_tool"
CREATE_PROJECT_SUBGRAPH_INTERFACE_TOOL == "create_project_subgraph_interface_tool"

EXECUTION_CONFIRMATION == "execution_confirmation"
OUTPUT_CONFIRMATION == "output_confirmation"

\* a tool name the language model proposes that no branch of the chatbot routes
UnroutedTool == "flooding_rainfall_subgraph_interface_tool"

\* The tool dictionaries bound to each Tool Handler Node
saferplaces_api_tools_dict == {DIGITAL_TWIN_TOOL, SAFER_RAIN_TOOL, GEOSPATIAL_OPS_TOOL}
safercast_api_tools_dict == {ICON2I_INGESTOR_TOOL}
demo_tools_dict == {DEMO_WEATHER_TOOL}
create_project_tools_dict ==
    {CREATE_PROJECT_SELECT_DTM_TOOL, CREATE_PROJECT_SELECT_BUILDINGS_TOOL,
     CREATE_PROJECT_SELECT_INFILTRATION_TOOL, CREATE_PROJECT_SELECT_LITHOLOGY_TOOL,
     CREATE_PROJECT_SELECT_OTHER_LAYERS_TOOL}

\* the order in which the dict literal of create_project.py lists the tools
create_project_tools_list ==
    <<CREATE_PROJECT_SELECT_DTM_TOOL, CREATE_PROJECT_SELECT_BUILDINGS_TOOL,
      CREATE_PROJECT_SELECT_INFILTRATION_TOOL, CREATE_PROJECT_SELECT_LITHOLOGY_TOOL,
      CREATE_PROJECT_SELECT_OTHER_LAYERS_TOOL>>

\* The tool objects; each is identified by the name its class is meant to
\* carry
ToolNames ==
    saferplaces_api_tools_dict \cup safercast_api_tools_dict \cup demo_tools_dict
      \cup create_project_tools_dict

HandlerNodes ==
    {SAFERPLACES_API_TOOL_HANDLER, SAFERCAST_API_TOOL_HANDLER, DEMO_TOOL_HANDLER,
     CREATE_PROJECT_TOOL_HANDLER}
InterruptNodes ==
    {SAFERPLACES_API_TOOL_INTERRUPT, SAFERCAST_API_TOOL_INTERRUPT, DEMO_TOOL_INTERRUPT,
     CREATE_PROJECT_TOOL_INTERRUPT}

\* BaseToolHandlerNode(..., tools = <dict>): the tools a handler is bound to
HandlerTools(h) ==
    CASE h = SAFERPLACES_API_TOOL_HANDLER -> saferplaces_api_tools_dict
      [] h = SAFERCAST_API_TOOL_HANDLER -> safercast_api_tools_dict
      [] h = DEMO_TOOL_HANDLER -> demo_tools_dict
      [] h = CREATE_PROJECT_TOOL_HANDLER -> create_project_tools_dict

\* BaseAgentTool.name as the tool's constructor sets it:
\* CreateProjectSelectLithologyTool passes
\* name = N.CREATE_PROJECT_SELECT_INFILTRATION_TOOL
name_of(t) ==
    IF t = CREATE_PROJECT_SELECT_LITHOLOGY_TOOL
    THEN CREATE_PROJECT_SELECT_INFILTRATION_TOOL
    ELSE t

\* the keys of a handler's tools dict: { tool.name: tool, ... }
HandlerKeys(h) == {name_of(t) : t \in HandlerTools(h)}

\* self.tools[name]: of the create-project tools listed under one key the
\* dict literal keeps the last
tools_get(h, name) ==
    IF h = CREATE_PROJECT_TOOL_HANDLER
    THEN LET at == {k \in 1..Len(create_project_tools_list) :
                       name_of(create_project_tools_list[k]) = name}
         IN  create_project_tools_list[CHOOSE k \in at : \A j \in at : j <= k]
    ELSE name

\* BaseToolHandlerNode(..., tool_interrupt_node_name = <name>)
InterruptNodeOf(h) ==
    CASE h = SAFERPLACES_API_TOOL_HANDLER -> SAFERPLACES_API_TOOL_INTERRUPT
      [] h = SAFERCAST_API_TOOL_HANDLER -> SAFERCAST_API_TOOL_INTERRUPT
      [] h = DEMO_TOOL_HANDLER -> DEMO_TOOL_INTERRUPT
      [] h = CREATE_PROJECT_TOOL_HANDLER -> CREATE_PROJECT_TOOL_INTERRUPT

----------------------------------------------------------------------------
\* Tool arguments.  One record shape for every tool: the fields of
\* CreateProjectSelectDTMTool.InputSchema, `forecast_run` of
\* ICON2IIngestorSchema and `water` of SaferRainInputSchema; "None" is
\* Python's None.
\* area: "None" | "name" (a place name, a str) | "text" (a str the model
\*       answered that is no list) | "bbox" (a list of 4 floats, at the
\*       rounding precision) | "bbox3" / "bbox5" (a list of 3 / of 5 floats)

NoArgs == [area |-> "None", crs |-> "None", dtm_file |-> "None",
           forecast_run |-> "None", water |-> "None"]

IsStr(area) == area \in {"name", "text"}

IsList(area) == area \in {"bbox", "bbox3", "bbox5"}

\* args_schema of each tool: the fields of the tool's own arguments
SchemaFields(t) ==
    CASE t = CREATE_PROJECT_SELECT_DTM_TOOL -> {"area", "crs", "dtm_file"}
      [] t = DEMO_WEATHER_TOOL -> {"area"}
      [] t = ICON2I_INGESTOR_TOOL -> {"forecast_run"}
      [] t = SAFER_RAIN_TOOL -> {"water"}
      [] OTHER -> {}


----------------------------------------------------------------------------
\* Results and interrupts

NoResult == [kind |-> "none", msg |-> "", run |-> 0]
ErrorResult(m) == [kind |-> "error", msg |-> m, run |-> 0]
\* {'tool_response': {'error': ...}} built by an _execute whose remote call failed
ApiErrorResult(m, run) == [kind |-> "api_error", msg |-> m, run |-> run]
NoInterrupt == [interrupt_type |-> "none", tool |-> "", content |-> NoArgs]

\* BaseToolInterrupt.as_dict: the confirmation prompt is built from the
\* resolved arguments
ToolInterrupt(t, type, resolved) == [interrupt_type |-> type, tool |-> t, content |-> resolved]

----------------------------------------------------------------------------
\* The Agent Tools: construction, reset, rules and action of each tool class

\* BaseAgentTool's values of the two flags before a tool class sets its own
\* (select_dtm_tool.py line 74: "There is already the execution_confirmed:True")
BaseAgentToolDefaults == [execution_confirmed |-> TRUE, output_confirmed |-> FALSE]

\* <Tool>.__init__: the flags right after construction
ToolInit(t) ==
    CASE t \in {DIGITAL_TWIN_TOOL, SAFER_RAIN_TOOL, ICON2I_INGESTOR_TOOL} ->
            [execution_confirmed |-> FALSE, output_confirmed |-> TRUE]
      [] t = GEOSPATIAL_OPS_TOOL -> [execution_confirmed |-> TRUE, output_confirmed |-> FALSE]
      [] t = CREATE_PROJECT_SELECT_DTM_TOOL ->
            [BaseAgentToolDefaults EXCEPT !.output_confirmed = TRUE]
      [] t = DEMO_WEATHER_TOOL ->
            [BaseAgentToolDefaults EXCEPT !.output_confirmed = TRUE]
      [] OTHER -> [execution_confirmed |-> TRUE, output_confirmed |-> TRUE]

\* BaseAgentTool._on_tool_end, for a tool class that does not override it:
\* restore the tool's declared defaults
BaseOnToolEnd(t) == ToolInit(t)

\* Variant: DigitalTwinTool._on_tool_end leaving execution_confirmed set
OnToolEndMissingReset(t) ==
    CASE t = DIGITAL_TWIN_TOOL -> [execution_confirmed |-> TRUE, output_confirmed |-> TRUE]
      [] OTHER -> ToolInit(t)

\* <Tool>._on_tool_end: the flags it restores
on_tool_end(t) ==
    CASE t \in {DIGITAL_TWIN_TOOL, SAFER_RAIN_TOOL, ICON2I_INGESTOR_TOOL} ->
            [execution_confirmed |-> FALSE, output_confirmed |-> TRUE]
      [] t = GEOSPATIAL_OPS_TOOL -> [execution_confirmed |-> TRUE, output_confirmed |-> FALSE]
      [] t = CREATE_PROJECT_SELECT_DTM_TOOL -> [execution_confirmed |-> FALSE, output_confirmed |-> TRUE]
      [] t = DEMO_WEATHER_TOOL -> BaseOnToolEnd(t)
      [] OTHER -> [execution_confirmed |-> TRUE, output_confirmed |-> TRUE]

\* What the auxiliary model may answer when asked for a bounding box
\* (utils.ask_llm with eval_output=True): a list of 4 floats, a shorter
\* list, or text that does not evaluate
LlmAnswers == {"bbox", "text", "bbox3"}

\* infer_area.bounding_box_from_location_name: a str is resolved through ask_llm
bounding_box_from_location_name(area, llm) == IF IsStr(area) THEN llm ELSE area

\* infer_area.round_bounding_box: a list becomes the list of its first four
\* items, rounded; a list of fewer than four raises IndexError
round_bounding_box_raises(area) == area = "bbox3"

round_bounding_box(area) == IF IsList(area) THEN "bbox" ELSE area

\* infer_area of select_dtm and of the demo weather tool
infer_area(area, llm) == round_bounding_box(bounding_box_from_location_name(area, llm))

infer_area_raises(area, llm) ==
    round_bounding_box_raises(bounding_box_from_location_name(area, llm))

\* SaferRainTool infer_water: the given (or a generated) file name under
\* the output folder of the bucket
infer_water(water) == "saferrain-out/" \o (IF water = "None" THEN "water-depth.tif" ELSE water)

\* ICON2IIngestorTool infer_forecast_run: a given run is kept; the default
\* is computed with `<datetime>.date.isoformat()`, which raises AttributeError
infer_forecast_run_raises(forecast_run) == forecast_run = "None"

\* Variant: a resolver that computes the default run whatever was given
InferForecastRunAlwaysDefault(forecast_run) == "latest-run"

infer_forecast_run(forecast_run) == forecast_run

\* Variants: an infer_area that drops the confirmation for every area, and
\* one that never drops it
InferAreaAlwaysFlips(area) == TRUE

InferAreaNeverFlips(area) == FALSE

\* ... and `self.execution_confirmed = False` whenever the area is a str
infer_area_flips(area) == IsStr(area)

\* _set_args_inference_rules of each tool, on the modelled fields
infer_args(t, ka, llm) ==
    CASE t \in {CREATE_PROJECT_SELECT_DTM_TOOL, DEMO_WEATHER_TOOL} ->
            [ka EXCEPT !.area = infer_area(ka.area, llm)]
      [] t = SAFER_RAIN_TOOL -> [ka EXCEPT !.water = infer_water(ka.water)]
      [] t = ICON2I_INGESTOR_TOOL ->
            [ka EXCEPT !.forecast_run = infer_forecast_run(ka.forecast_run)]
      [] OTHER -> ka

\* does a resolver of the tool raise on these arguments
infer_raises(t, ka, llm) ==
    CASE t \in {CREATE_PROJECT_SELECT_DTM_TOOL, DEMO_WEATHER_TOOL} ->
            infer_area_raises(ka.area, llm)
      [] t = ICON2I_INGESTOR_TOOL -> infer_forecast_run_raises(ka.forecast_run)
      [] OTHER -> FALSE

infer_flips(t, ka) ==
    /\ t \in {CREATE_PROJECT_SELECT_DTM_TOOL, DEMO_WEATHER_TOOL}
    /\ infer_area_flips(ka.area)

\* Variant: the dict with the 'dtm_file' rules first
SelectDtmRulesDtmFirst ==
    <<"dtm_file_invalid", "dtm_file_required", "area_len", "area_required",
      "crs_invalid", "crs_required">>

\* CreateProjectSelectDTMTool._set_args_validation_rules: the rules in
\* the order of the dict and of each list
select_dtm_validation_rules ==
    <<"area_len", "area_required", "crs_invalid", "crs_required",
      "dtm_file_invalid", "dtm_file_required">>

\* each lambda: the message it returns, "None" when it passes
MsgAreaLen == "Invalid area coordinates"
MsgAreaRequired == "Area cordinates or name (and relative output CRS) must be provided if dtm_file is not specified."
MsgCrsInvalid == "Invalid CRS"
MsgCrsRequired == "CRS must be provided if area is specified as a list of coordinates."
MsgDtmInvalid == "Invalid DTM file path"
MsgDtmRequired == "DTM file must be provided if area is not specified."

select_dtm_rule(rule, ka) ==
    CASE rule = "area_len" ->
            IF IsList(ka.area) /\ ka.area # "bbox" THEN MsgAreaLen ELSE "None"
      [] rule = "area_required" ->
            IF ka.dtm_file = "None" /\ ka.area = "None" THEN MsgAreaRequired ELSE "None"
      [] rule = "crs_invalid" ->
            IF ka.crs # "None" /\ ka.crs # "EPSG:4326" THEN MsgCrsInvalid ELSE "None"
      [] rule = "crs_required" ->
            IF ka.dtm_file = "None" /\ ka.area # "None" /\ ka.crs = "None"
            THEN MsgCrsRequired ELSE "None"
      [] rule = "dtm_file_invalid" ->
            IF ka.dtm_file # "None" /\ ka.dtm_file # "s3://dtm" THEN MsgDtmInvalid ELSE "None"
      [] rule = "dtm_file_required" ->
            IF ka.dtm_file = "None" /\ ka.area = "None" THEN MsgDtmRequired ELSE "None"

\* _set_args_validation_rules of each tool (the other tools' rules pass on
\* every argument set the model draws for them)
args_validation_rules(t) ==
    IF t = CREATE_PROJECT_SELECT_DTM_TOOL THEN select_dtm_validation_rules ELSE <<>>

\* The rule engine: the first non-None message in rule order, "None" if all pass
RECURSIVE FirstFailure(_, _, _)
FirstFailure(rules, ka, i) ==
    IF i > Len(rules) THEN "None"
    ELSE IF select_dtm_rule(rules[i], ka) # "None" THEN select_dtm_rule(rules[i], ka)
    ELSE FirstFailure(rules, ka, i + 1)

check_args(t, ka) == FirstFailure(args_validation_rules(t), ka, 1)

\* What the remote processing API may answer to requests.post: 200 with the
\* expected key, 200 without it, a non-200 status with a JSON body, a
\* non-200 status with a body that is no JSON
RemoteResponses == {"ok", "unexpected", "500_json", "500_text"}

MsgFailedToExecute == "Failed to execute API: 500"
MsgUnexpectedResponse == "Unexpected response from API"
MsgExplainError == "An error occurred while executing the tool. Explain the error to the user and then ask him if he wants to retry or not."

\* the src of the layers the tools register
DigitalTwinDem == "dtm_cropped_32633.tif"

\* states.src_layer_exists
src_layer_exists(registry, src) == \E i \in 1..Len(registry) : registry[i] = src

\* the environment of one invocation: the auxiliary model's answer, the
\* remote API's answer and graph_state['layer_registry']
Env(llm, remote, registry) == [llm |-> llm, remote |-> remote, layer_registry |-> registry]

\* <Tool>._execute raising instead of returning:
\*  - DigitalTwinTool: once the DEM is registered the next conditional reads
\*    api_response['files']['file_building'], a key the response lacks
\*  - SaferRainTool, ICON2IIngestorTool: api_response.json() on a body that
\*    is no JSON
execute_raises(t, env) ==
    CASE t = DIGITAL_TWIN_TOOL -> src_layer_exists(env.layer_registry, DigitalTwinDem)
      [] t \in {SAFER_RAIN_TOOL, ICON2I_INGESTOR_TOOL} -> env.remote = "500_text"
      [] OTHER -> FALSE

\* SaferRainTool._execute: 'tool_response' after the status check, the
\* parse of the body and the check for 'water_depth_file'; the second
\* check assigns tool_response again, whatever the status was
safer_rain_tool_response(remote, run) ==
    LET after_status == IF remote \in {"500_json", "500_text"}
                        THEN ApiErrorResult(MsgFailedToExecute, run)
                        ELSE NoResult
    IN  IF remote = "ok"
        THEN [kind |-> "output", msg |-> SAFER_RAIN_TOOL, run |-> run]
        ELSE ApiErrorResult(MsgUnexpectedResponse, run)

\* the tools whose _execute posts a request to the remote processing API
RemoteTools == {SAFER_RAIN_TOOL, ICON2I_INGESTOR_TOOL}

\* The answers of the remote API a tool tells apart: ICON2IIngestorTool
\* reads no status and no key, it only parses the body
RemoteResponsesOf(t) ==
    CASE t = SAFER_RAIN_TOOL -> RemoteResponses
      [] t = ICON2I_INGESTOR_TOOL -> {"ok", "500_text"}
      [] OTHER -> {"ok"}

\* <Tool>._execute: the result mapping; `run` tags the computation
tool_execute(t, ka, env, run) ==
    IF t = SAFER_RAIN_TOOL THEN safer_rain_tool_response(env.remote, run)
    ELSE [kind |-> "output", msg |-> t, run |-> run]

\* <Tool>._execute: the 'updates' of the result mapping
execute_updates(t, ka, env, result) ==
    CASE t = DIGITAL_TWIN_TOOL ->
            ("layer_registry" :> Append(env.layer_registry, DigitalTwinDem))
      [] t = SAFER_RAIN_TOOL /\ result.kind = "api_error" ->
            ("messages" :> <<[role |-> "system", name |-> MsgExplainError, id |-> 0,
                              tool_calls |-> <<>>, tool_call_id |-> 0, content |-> NoResult]>>)
      [] t = SAFER_RAIN_TOOL /\ result.kind # "api_error" ->
            ("layer_registry" :> IF src_layer_exists(env.layer_registry, ka.water) THEN <<>>
                                 ELSE Append(env.layer_registry, ka.water))
      [] OTHER -> [k \in {} |-> 0]

\* <Tool>._execute: what it does to the confirmation flags
\* (DemoWeatherTool._execute: "Back to a consisent state")
execute_flags(t, flags) ==
    IF t = DEMO_WEATHER_TOOL THEN [flags EXCEPT !.execution_confirmed = FALSE] ELSE flags


----------------------------------------------------------------------------
\* BaseAgentTool.invoke: resolve, validate, confirmation gate, execute,
\* output confirmation gate, reset.  `st` is the tool's state, `raw` the
\* tool call's arguments, `llm` the auxiliary model's answer, `run` the tag
\* of the computation if the action runs.

\* step 3: the gate raises when the flag is False
confirmation_gate_raises(ec) == ~ec

\* Variant: a tool that keeps no computed output
NeverReplays(st) == FALSE

\* step 5 on resume: an output computed before the interrupt is returned
\* instead of executing again
replays_output(st) == st.output_confirmed /\ st.output # NoResult

\* Variant: an engine that validates the arguments as the caller passed them
ValidatesRawArgs(raw, resolved) == raw

\* step 2 works on the arguments step 1 produced
validated_args(raw, resolved) == resolved

Invoke(t, st, raw, env, run) ==
    LET llm == env.llm
        resolved == infer_args(t, raw, llm)
        flip == infer_flips(t, raw)
        ec == IF flip THEN FALSE ELSE st.execution_confirmed
        err == check_args(t, validated_args(raw, resolved))
        atGate == [execution_confirmed |-> ec, output_confirmed |-> st.output_confirmed]
        base == [outcome |-> "result", result |-> NoResult, interrupt |-> NoInterrupt,
                 flags |-> on_tool_end(t), output |-> st.output, executed |-> FALSE,
                 gate |-> ec, resets |-> 1, midReset |-> FALSE, inferFlip |-> flip,
                 resolved |-> resolved, replayed |-> FALSE,
                 updates |-> [k \in {} |-> 0], raised |-> "", remote |-> "none",
                 remote_calls |-> 0]
    IN  IF infer_raises(t, raw, llm)
        THEN [base EXCEPT !.outcome = "raise", !.raised = "inference", !.resolved = raw]
        ELSE IF err # "None"
        THEN [base EXCEPT !.result = ErrorResult(err)]
        ELSE IF confirmation_gate_raises(ec)
        THEN [base EXCEPT !.outcome = "interrupt",
                          !.interrupt = ToolInterrupt(t, EXECUTION_CONFIRMATION, resolved)]
        ELSE IF replays_output(st)
        THEN [base EXCEPT !.result = st.output, !.output = NoResult, !.replayed = TRUE]
        ELSE IF execute_raises(t, env)
        THEN [base EXCEPT !.outcome = "raise", !.raised = "execute", !.executed = TRUE,
                          !.remote = env.remote,
                          !.remote_calls = IF t \in RemoteTools THEN 1 ELSE 0]
        ELSE LET out == tool_execute(t, resolved, env, run)
                 fx == execute_flags(t, atGate)
                 upd == execute_updates(t, resolved, env, out)
                 done == [base EXCEPT !.updates = upd, !.remote = env.remote,
                                      !.remote_calls = IF t \in RemoteTools THEN 1 ELSE 0]
             IN  IF ~fx.output_confirmed
                 THEN [base EXCEPT !.outcome = "interrupt",
                                   !.interrupt = ToolInterrupt(t, OUTPUT_CONFIRMATION, resolved),
                                   !.output = out, !.executed = TRUE,
                                   !.midReset = (fx # atGate)]
                 ELSE [done EXCEPT !.result = out, !.output = NoResult, !.executed = TRUE,
                                   !.midReset = (fx # atGate)]

----------------------------------------------------------------------------
\* Messages (MessagesState) and node_params (merge_dictionaries)

Message(role, name, id, tool_calls, tool_call_id, content) ==
    [role |-> role, name |-> name, id |-> id, tool_calls |-> tool_calls,
     tool_call_id |-> tool_call_id, content |-> content]

HumanMessage == Message("human", "", 0, <<>>, 0, NoResult)
SystemMessage(text) == Message("system", text, 0, <<>>, 0, NoResult)
AIText == Message("ai", "", 0, <<>>, 0, NoResult)
ToolCall(name, args, id) == [name |-> name, args |-> args, id |-> id]
\* an assistant message carrying one tool call; its message id is derived
\* from the call's id
AIToolCall(name, args, id) == Message("ai", "", id, <<ToolCall(name, args, id)>>, 0, NoResult)
ToolMessage(name, content, tool_call_id) == Message("tool", name, 0, <<>>, tool_call_id, content)

\* utils.remove_message: RemoveMessage(id = message_id)
RemoveMessage(id) == Message("remove", "", id, <<>>, 0, NoResult)

\* the list without its i-th item
RemoveAt(seq, i) == SubSeq(seq, 1, i - 1) \o SubSeq(seq, i + 1, Len(seq))

\* the messages reducer of MessagesState: a message whose id is already in
\* the list replaces that message in place, a RemoveMessage takes the
\* message of its id out, any other message is appended (id 0 stands for a
\* fresh unique id)
RECURSIVE add_messages(_, _)
add_messages(left, right) ==
    IF right = <<>> THEN left
    ELSE LET m == Head(right)
             hit == {i \in 1..Len(left) : m.id # 0 /\ left[i].id = m.id}
             merged == IF hit = {} THEN (IF m.role = "remove" THEN left ELSE Append(left, m))
                       ELSE IF m.role = "remove" THEN RemoveAt(left, CHOOSE i \in hit : TRUE)
                       ELSE [i \in 1..Len(left) |-> IF i \in hit THEN m ELSE left[i]]
         IN  add_messages(merged, Tail(right))

\* the reducer raises ValueError for a RemoveMessage whose id is in no
\* message of the list
add_messages_raises(left, right) ==
    \E k \in 1..Len(right) :
        right[k].role = "remove" /\ \A i \in 1..Len(left) : left[i].id # right[k].id

\* node_params[CHATBOT_UPDATE_MESSAGES]['update_messages']: None, or a list
\* of messages
NoUpdateMessages == [set |-> FALSE, messages |-> <<>>]
UpdateMessages(msgs) == [set |-> TRUE, messages |-> msgs]

EmptyDict == [k \in {} |-> 0]

\* the layer_registry reducer: a layer is appended only if no entry of the
\* registry has its src
\* Variant: a reducer that adds the two lists together
MergeLayerRegistryConcatenates(left, right) == left \o right

RECURSIVE merge_layer_registry(_, _)
merge_layer_registry(left, right) ==
    IF right = <<>> THEN left
    ELSE merge_layer_registry(
            IF src_layer_exists(left, Head(right)) THEN left ELSE Append(left, Head(right)),
            Tail(right))

\* which keys hold a mapping, at each depth of node_params
IsDictKey(k, depth) == depth = 0 \/ k \in {"tool_interrupt", "tool_outputs"}

\* which keys may hold a list: the area of a tool's pre-filled arguments
\* and the update_messages directive
IsListKey(k, depth) == depth = 1 /\ k \in {"area", "update_messages"}

\* isinstance(value, list), for the value under a list key
IsListUnder(k, value) == IF k = "area" THEN IsList(value) ELSE value.set

\* left[key] + value: two lists of numbers give a list of more than four,
\* two lists of messages the messages of both
ConcatLists(k, left, right) ==
    IF k = "area" THEN "bbox5" ELSE UpdateMessages(left.messages \o right.messages)

\* utils.merge_dictionaries, on node_params, where the key tells the type of
\* the value
RECURSIVE merge_dictionaries(_, _, _)
merge_dictionaries(left, right, depth) ==
    [k \in (DOMAIN left) \cup (DOMAIN right) |->
        IF k \notin DOMAIN right THEN left[k]
        ELSE IF k \notin DOMAIN left THEN right[k]
        ELSE IF IsDictKey(k, depth) /\ DOMAIN right[k] # {}
             THEN merge_dictionaries(left[k], right[k], depth + 1)
        ELSE IF IsListKey(k, depth) /\ IsListUnder(k, left[k]) /\ IsListUnder(k, right[k])
             THEN ConcatLists(k, left[k], right[k])
        ELSE right[k]]

\* Python values by type: a dict is a function on its keys, a list a
\* sequence, anything else a scalar
DictValue(d) == [t |-> "dict", d |-> d, l |-> <<>>, v |-> 0]
ListValue(l) == [t |-> "list", d |-> EmptyDict, l |-> l, v |-> 0]
ScalarValue(v) == [t |-> "scalar", d |-> EmptyDict, l |-> <<>>, v |-> v]

\* utils.merge_dictionaries, on values of any type
RECURSIVE merge_dictionaries_values(_, _)
merge_dictionaries_values(left, right) ==
    DictValue([key \in (DOMAIN left.d) \cup (DOMAIN right.d) |->
        IF key \notin DOMAIN right.d THEN left.d[key]
        ELSE IF key \notin DOMAIN left.d THEN right.d[key]
        ELSE LET value == right.d[key]
             IN  IF left.d[key].t = "dict" /\ value.t = "dict" /\ DOMAIN value.d # {}
                 THEN merge_dictionaries_values(left.d[key], value)
                 ELSE IF left.d[key].t = "list" /\ value.t = "list"
                 THEN ListValue(left.d[key].l \o value.l)
                 ELSE value])

Get(d, k, default) == IF k \in DOMAIN d THEN d[k] ELSE default


----------------------------------------------------------------------------
\* Inputs the model draws

\* The user's reply to a confirmation prompt: approve ("yes"), deny, or new
\* values for an argument, with or without approval
NoReply == [verdict |-> "none", field |-> "none", value |-> "None"]
Replies ==
    { [verdict |-> "approve", field |-> "none", value |-> "None"],
      [verdict |-> "deny", field |-> "none", value |-> "None"],
      [verdict |-> "modify", field |-> "area", value |-> "bbox"],
      [verdict |-> "modify", field |-> "crs", value |-> "bad"],
      [verdict |-> "approve", field |-> "area", value |-> "bbox"] }

\* The select_dtm arguments the pre-fill may find in the user's request
DtmArgs ==
    { [NoArgs EXCEPT !.area = "bbox", !.crs = "EPSG:4326"],
      [NoArgs EXCEPT !.area = "name", !.crs = "EPSG:4326"],
      [NoArgs EXCEPT !.dtm_file = "s3://dtm"],
      [NoArgs EXCEPT !.area = "bbox", !.crs = "bad"],
      [NoArgs EXCEPT !.crs = "bad", !.dtm_file = "bad"],
      [NoArgs EXCEPT !.area = "bbox5", !.crs = "EPSG:4326"] }

\* chatbot.tools_map: the tools registered with the router
tools_map ==
    {DIGITAL_TWIN_TOOL, SAFER_RAIN_TOOL, GEOSPATIAL_OPS_TOOL, ICON2I_INGESTOR_TOOL,
     DEMO_WEATHER_TOOL, CREATE_PROJECT_SUBGRAPH_INTERFACE_TOOL}

\* A value of state['avaliable_tools']: the key is absent, None, or a list
\* of tool names
AbsentChoice == [kind |-> "absent", names |-> {}]
NoneChoice == [kind |-> "None", names |-> {}]
ListChoice(names) == [kind |-> "list", names |-> names]

\* Variant: a chatbot that reads a missing key as None
StateGetDefaultsToNone(value) == IF value.kind = "absent" THEN NoneChoice ELSE value

\* state.get("avaliable_tools", list())
state_get_avaliable_tools(value) == IF value.kind = "absent" THEN ListChoice({}) ELSE value

\* set_tool_choice: the names of the tools bound to the model
set_tool_choice(tool_choice) ==
    IF tool_choice.kind = "None" THEN {}
    ELSE IF tool_choice.names = {} THEN tools_map
    ELSE tool_choice.names \cap tools_map

\* The values of avaliable_tools a graph input may carry
ToolChoices ==
    {NoneChoice, ListChoice({}), ListChoice({DIGITAL_TWIN_TOOL}), ListChoice({SAFER_RAIN_TOOL}),
     ListChoice({GEOSPATIAL_OPS_TOOL, DEMO_WEATHER_TOOL}), ListChoice({UnroutedTool})}

NotRun == [ran |-> FALSE, seen |-> AbsentChoice, tools |-> {}]

\* The tool calls the language model may propose to the chatbot
ProposedCalls ==
    { <<DIGITAL_TWIN_TOOL, NoArgs>>, <<GEOSPATIAL_OPS_TOOL, NoArgs>>,
      <<DEMO_WEATHER_TOOL, [NoArgs EXCEPT !.area = "name"]>>,
      <<DEMO_WEATHER_TOOL, [NoArgs EXCEPT !.area = "bbox"]>>,
      <<CREATE_PROJECT_SUBGRAPH_INTERFACE_TOOL, NoArgs>>,
      <<SAFER_RAIN_TOOL, [NoArgs EXCEPT !.water = "w.tif"]>>,
      <<ICON2I_INGESTOR_TOOL, NoArgs>>,
      <<ICON2I_INGESTOR_TOOL, [NoArgs EXCEPT !.forecast_run = "2025-01-01"]>> }

\* The replies of the language model that propose tool calls: one call, or
\* several calls in one reply
ProposedReplies ==
    { <<call>> : call \in ProposedCalls }
      \cup { << <<DIGITAL_TWIN_TOOL, NoArgs>>, <<GEOSPATIAL_OPS_TOOL, NoArgs>> >>,
             << <<GEOSPATIAL_OPS_TOOL, NoArgs>>, <<DIGITAL_TWIN_TOOL, NoArgs>> >> }

MergeArgs(args, reply) ==
    IF reply.field = "area" THEN [args EXCEPT !.area = reply.value]
    ELSE IF reply.field = "crs" THEN [args EXCEPT !.crs = reply.value]
    ELSE args

----------------------------------------------------------------------------
\* Initial state: the graph is compiled, every tool is constructed, no
\* prompt has been sent

NoCall ==
    [tool |-> "", id |-> 0, args |-> NoArgs, handler |-> "", viaResume |-> FALSE,
     before |-> BaseAgentToolDefaults, outcome |-> "none", result |-> NoResult,
     interrupt |-> NoInterrupt, flags |-> BaseAgentToolDefaults, output |-> NoResult,
     executed |-> FALSE, gate |-> FALSE, resets |-> 0, midReset |-> FALSE,
     inferFlip |-> FALSE, resolved |-> NoArgs, replayed |-> FALSE, updates |-> EmptyDict,
     raised |-> "", remote |-> "none", remote_calls |-> 0,
     state_before |-> [n_messages |-> 0, node_params |-> EmptyDict, layer_registry |-> <<>>]]

NoResume ==
    [awaiting |-> FALSE, tool |-> "", id |-> 0, args |-> NoArgs, handler |-> "",
     interrupt_type |-> "none", reply |-> NoReply, output |-> NoResult, execs |-> 0]

InitThread ==
    /\ driver = "user_prompt"
    /\ messages = <<>>
    /\ node_params = EmptyDict
    /\ node = END
    /\ suspended = FALSE
    /\ resume_value = NoReply
    /\ tools = [t \in ToolNames |->
                  [execution_confirmed |-> ToolInit(t).execution_confirmed,
                   output_confirmed |-> ToolInit(t).output_confirmed,
                   output |-> NoResult]]
    /\ callback = "None"
    /\ gi_interrupt = NoInterrupt
    /\ pending = <<>>
    /\ lastCall = NoCall
    /\ lastResume = NoResume
    /\ execCount = EmptyDict
    /\ declined = {}
    /\ nextId = 1
    /\ nInputs = 0
    /\ nCalls = 0
    /\ runs = 0
    /\ layer_registry = <<>>
    /\ sub_runs = <<>>
    /\ proposed = <<>>
    /\ avaliable_tools = AbsentChoice
    /\ bound = NotRun

\* the side specifications' variables, at rest
NotMerged == [t |-> "none", d |-> EmptyDict, l |-> <<>>, v |-> 0]

\* the thread_ids registered in app.__GRAPH_REGISTRY__ and the requests the
\* server works on at once
Threads == {"t1", "t2"}
StreamIds == {"r1", "r2"}

\* the tools the sessions call: one that asks before it runs and one that
\* asks before it hands out its output
SessionTools == {DIGITAL_TWIN_TOOL, GEOSPATIAL_OPS_TOOL}

\* nothing was written on the tool for any session
NotWritten == [graph_state |-> "None", execution_confirmed |-> "None",
               output_confirmed |-> "None", output |-> "None"]

\* what an invocation found on the tool object: whether it got past the
\* confirmation gate, and for which session each attribute it read had been
\* written
NoObservation == [invoked |-> FALSE, passed |-> FALSE, found |-> NotWritten]

\* a request slot no call of user_prompt holds
IdleStream == [thread |-> "None", node |-> END, tool |-> "", interrupt_type |-> "none",
               resume |-> FALSE, called |-> FALSE, saw |-> NoObservation]

\* no tool call paused in the thread's checkpoint
NotPaused == [tool |-> "", interrupt_type |-> "none"]

\* GraphInterface.interrupt = None and nothing paused in the checkpoint
NoSession == [interrupt |-> "None", paused |-> NotPaused]

InitSessions ==
    /\ streams = [s \in StreamIds |-> IdleStream]
    /\ graph_registry = [th \in Threads |-> NoSession]
    /\ written_for = [t \in SessionTools |-> NotWritten]
    /\ events = <<>>
    /\ new_events = <<>>
    /\ chat_events = [th \in Threads |-> <<>>]
    /\ received = [th \in Threads |-> <<>>]
    /\ turn = [th \in Threads |-> [at |-> "idle", produced |-> 0]]

InitSide ==
    /\ lr_update = <<>>
    /\ m_left = DictValue(EmptyDict)
    /\ m_right = DictValue(EmptyDict)
    /\ m_out = NotMerged
    /\ InitSessions

Init == InitThread /\ InitSide


----------------------------------------------------------------------------
\* GraphInterface.user_prompt

\* Variant: a build_stream that ignores the recorded interrupt
AlwaysFreshInput(gi) == FALSE

\* build_stream: a recorded interrupt makes the prompt a resume payload
is_resume(gi) == gi # NoInterrupt

\* The prompt starts the graph (a fresh input enters at START -> chatbot)
\* or resumes the paused Tool Interrupt Node with {'response': prompt}.
user_prompt(reply) ==
    /\ node = END \/ suspended
    /\ nInputs < MaxInputs
    /\ nInputs' = nInputs + 1
    /\ driver' = "user_prompt"
    /\ IF is_resume(gi_interrupt)
       THEN /\ gi_interrupt' = NoInterrupt
            /\ resume_value' = reply
            /\ suspended' = FALSE
            /\ pending' = SubSeq(pending, 1, Len(pending) - 1)
            /\ UNCHANGED <<messages, node, avaliable_tools>>
       ELSE /\ messages' = add_messages(messages, <<SystemMessage("nowtime"), HumanMessage>>)
            /\ node' = CHATBOT
            /\ suspended' = FALSE
            /\ resume_value' = NoReply
            \* every caller passes state_updates = {'avaliable_tools': []}
            /\ avaliable_tools' = ListChoice({})
            /\ UNCHANGED <<gi_interrupt, pending>>
    /\ UNCHANGED <<node_params, tools, callback, lastCall, lastResume, execCount,
                   declined, nextId, nCalls, runs, layer_registry, proposed,
                   bound, sub_runs, side>>

----------------------------------------------------------------------------
\* chatbot: the router.  The language model answers with plain text or
\* proposes a tool call; the call is routed to the subgraph that owns the
\* tool, whose START edge leads to its Tool Handler Node (to
\* create_project_main for the create-project pipeline).

\* the subgraph a tool call is routed to; END for a name no branch matches
\* Variant: a router that sends every proposed call to the SaferPlaces
\* subgraph
RoutesAllToSaferplaces(name) ==
    IF name \in ToolNames THEN SAFERPLACES_API_TOOL_HANDLER ELSE END

RouteOf(name) ==
    CASE name \in saferplaces_api_tools_dict -> SAFERPLACES_API_TOOL_HANDLER
      [] name \in safercast_api_tools_dict -> SAFERCAST_API_TOOL_HANDLER
      [] name = DEMO_WEATHER_TOOL -> DEMO_TOOL_HANDLER
      [] name = CREATE_PROJECT_SUBGRAPH_INTERFACE_TOOL -> CREATE_PROJECT_MAIN
      [] OTHER -> END

\* Variant: a chatbot that forwards the reply's tool calls as proposed
KeepsEveryToolCall(tool_calls) == tool_calls

\* tool_call = ai_message.tool_calls[0]; ai_message.tool_calls = [tool_call]
first_tool_call(tool_calls) == <<tool_calls[1]>>

\* the reply's tool calls, numbered from the next free tool_call_id
NumberedCalls(reply, id) ==
    [k \in 1..Len(reply) |-> ToolCall(reply[k][1], reply[k][2], id + k - 1)]

\* the pending update_messages directive, None when there is none
update_messages ==
    Get(Get(node_params, CHATBOT_UPDATE_MESSAGES, EmptyDict), "update_messages", NoUpdateMessages)

chatbot ==
    /\ node = CHATBOT
    /\ Len(messages) > 0
    /\ IF update_messages.set
       THEN /\ node' = CHATBOT_UPDATE_MESSAGES
            /\ UNCHANGED <<messages, node_params, bound, proposed, nextId, nCalls, execCount>>
       ELSE /\ bound' = [ran |-> TRUE, seen |-> avaliable_tools,
                         tools |-> set_tool_choice(state_get_avaliable_tools(avaliable_tools))]
            /\ \/ /\ messages' = add_messages(messages, <<AIText>>)
                  /\ node_params' = merge_dictionaries(node_params, EmptyDict, 0)
                  /\ node' = END
                  /\ proposed' = <<>>
                  /\ UNCHANGED <<nextId, nCalls, execCount>>
               \/ /\ nCalls < MaxToolCalls
                  /\ nCalls' = nCalls + 1
                  /\ \E reply \in ProposedReplies :
                        LET tool_calls == NumberedCalls(reply, nextId)
                            ai_message == Message("ai", "", nextId, first_tool_call(tool_calls), 0, NoResult)
                            name == ai_message.tool_calls[1].name
                        IN  /\ \A k \in 1..Len(reply) : reply[k][1] \in bound'.tools
                            /\ proposed' = tool_calls
                            /\ messages' =
                                  IF name = CREATE_PROJECT_SUBGRAPH_INTERFACE_TOOL
                                  THEN add_messages(messages, <<>>)
                                  ELSE add_messages(messages, <<ai_message>>)
                            /\ node' = RouteOf(name)
                            /\ nextId' = nextId + Len(reply)
                            /\ execCount' = [k \in nextId..(nextId + Len(reply) - 1) |-> 0] @@ execCount
                  /\ node_params' = merge_dictionaries(node_params, EmptyDict, 0)
    /\ UNCHANGED <<suspended, resume_value, tools, callback, gi_interrupt, pending,
                   lastCall, lastResume, declined, nInputs, runs, layer_registry,
                   avaliable_tools, sub_runs, driver, side>>

----------------------------------------------------------------------------
\* BaseToolHandlerNode: tool_handler_template

\* Variant: a package that names the interrupt node as the node to return to
PackageNamesInterruptNode(h, tool_message, tool_interrupt) ==
    [tool_message |-> tool_message, tool_interrupt |-> tool_interrupt,
     tool_handler_node |-> InterruptNodeOf(h)]

\* the package stored for the Tool Interrupt Node when the tool raises
interrupt_package(h, tool_message, tool_interrupt) ==
    [tool_message |-> tool_message, tool_interrupt |-> tool_interrupt,
     tool_handler_node |-> h]

\* Variant: a handler that also answers the tool call when the tool raises
InterruptAlsoEmitsToolMessage(tool_call, tool_interrupt) ==
    <<ToolMessage(tool_call.name, NoResult, tool_call.id)>>

\* the messages the handler emits when the tool raises
interrupt_messages(tool_call, tool_interrupt) == <<>>

\* on_handle_end of the runner that last set the module-level callback
\* Variant: a Buildings callback that names MAIN as the next node
BuildingsReturnsToMain(t) ==
    CASE t = CREATE_PROJECT_SELECT_DTM_TOOL -> CREATE_PROJECT_SELECT_BUILDINGS_TOOL_RUNNER
      [] OTHER -> CREATE_PROJECT_MAIN

NextNodeAfter(t) ==
    CASE t = CREATE_PROJECT_SELECT_DTM_TOOL -> CREATE_PROJECT_SELECT_BUILDINGS_TOOL_RUNNER
      [] t = CREATE_PROJECT_SELECT_BUILDINGS_TOOL -> CREATE_PROJECT_SELECT_INFILTRATION_TOOL_RUNNER
      [] t = CREATE_PROJECT_SELECT_INFILTRATION_TOOL -> CREATE_PROJECT_SELECT_LITHOLOGY_TOOL_RUNNER
      [] t = CREATE_PROJECT_SELECT_LITHOLOGY_TOOL -> CREATE_PROJECT_SELECT_OTHER_LAYERS_TOOL_RUNNER
      [] t = CREATE_PROJECT_SELECT_OTHER_LAYERS_TOOL -> CREATE_PROJECT_MAIN

on_handle_end(cb, tool_output) ==
    [update |-> (CREATE_PROJECT_MAIN :> [tool_outputs |-> (cb :> tool_output)]),
     next_node |-> NextNodeAfter(cb)]

\* self.on_handle_end_callback(tool_output = result)
on_handle_end_callback(h, cb, tool_output) ==
    IF h = CREATE_PROJECT_TOOL_HANDLER /\ cb # "None"
    THEN on_handle_end(cb, tool_output)
    ELSE [update |-> EmptyDict, next_node |-> "None"]

\* the update the handler returns on a normal result:
\*   {"messages": tool_response_message, **additional_updates}
\* with additional_updates = additional_ouput_state | tool_result_updates
\* | callback_result['update']; a key of additional_updates takes the place
\* of the same key written before it
handler_update(tool_response_message, tool_result_updates, callback_update) ==
    [messages |-> IF "messages" \in DOMAIN tool_result_updates
                  THEN tool_result_updates["messages"]
                  ELSE <<tool_response_message>>,
     layer_registry |-> IF "layer_registry" \in DOMAIN tool_result_updates
                        THEN tool_result_updates["layer_registry"] ELSE <<>>,
     node_params |-> callback_update]

\* tool_call = tool_message.tool_calls[-1]
handled_tool_call(tool_calls) == tool_calls[Len(tool_calls)]

\* what an invocation that never reached the tool leaves in lastCall
LookupFailed ==
    [outcome |-> "raise", result |-> NoResult, interrupt |-> NoInterrupt,
     flags |-> BaseAgentToolDefaults, output |-> NoResult, executed |-> FALSE,
     gate |-> FALSE, resets |-> 0, midReset |-> FALSE, inferFlip |-> FALSE,
     resolved |-> NoArgs, replayed |-> FALSE, updates |-> EmptyDict,
     raised |-> "lookup", remote |-> "none", remote_calls |-> 0]

tool_handler(h) ==
    /\ node = h
    /\ LET tool_message == messages[Len(messages)]
           tool_call == handled_tool_call(tool_message.tool_calls)
           t == IF tool_call.name \in HandlerKeys(h) THEN tools_get(h, tool_call.name)
                ELSE tool_call.name
           asks == t \in {CREATE_PROJECT_SELECT_DTM_TOOL, DEMO_WEATHER_TOOL} /\ IsStr(tool_call.args.area)
           observed == [tool |-> t, id |-> tool_call.id, args |-> tool_call.args,
                        handler |-> h, viaResume |-> lastResume.awaiting,
                        before |-> IF t \in ToolNames
                                   THEN [execution_confirmed |-> tools[t].execution_confirmed,
                                         output_confirmed |-> tools[t].output_confirmed]
                                   ELSE BaseAgentToolDefaults,
                        state_before |-> [n_messages |-> Len(messages), node_params |-> node_params,
                                          layer_registry |-> layer_registry]]
       IN  IF tool_call.name \notin HandlerKeys(h)
           THEN \* self.tools[tool_call['name']] raises KeyError
                /\ lastCall' = observed @@ LookupFailed
                /\ node' = END
                /\ UNCHANGED <<tools, execCount, runs, node_params, messages, layer_registry,
                                sub_runs>>
           ELSE \E llm \in (IF asks THEN LlmAnswers ELSE {"bbox"}),
                   remote \in RemoteResponsesOf(t) :
                LET r == Invoke(t, tools[t], tool_call.args, Env(llm, remote, layer_registry), runs + 1)
                    cb == on_handle_end_callback(h, callback, r.result)
                    up == handler_update(ToolMessage(tool_call.name, r.result, tool_call.id),
                                         r.updates, cb.update)
                IN  /\ (r.remote = "none" => remote = "ok")
                    /\ tools' = [tools EXCEPT ![t] =
                                    [execution_confirmed |-> r.flags.execution_confirmed,
                                     output_confirmed |-> r.flags.output_confirmed,
                                     output |-> r.output]]
                    /\ lastCall' = observed @@ r
                    /\ execCount' = IF r.executed
                                    THEN [execCount EXCEPT ![tool_call.id] = @ + 1]
                                    ELSE execCount
                    /\ runs' = IF r.executed THEN runs + 1 ELSE runs
                    /\ sub_runs' = IF h = CREATE_PROJECT_TOOL_HANDLER /\ r.executed
                                   THEN Append(sub_runs, [tool |-> t, key |-> callback])
                                   ELSE sub_runs
                    /\ CASE r.outcome = "interrupt" ->
                              /\ node_params' = merge_dictionaries(node_params,
                                     (InterruptNodeOf(h) :> interrupt_package(h, tool_message, r.interrupt)), 0)
                              /\ messages' = add_messages(messages, interrupt_messages(tool_call, r.interrupt))
                              /\ node' = InterruptNodeOf(h)
                              /\ UNCHANGED layer_registry
                         [] r.outcome = "raise" ->
                              \* no except clause but BaseToolInterrupt's: the
                              \* exception leaves the node and ends the run
                              /\ node' = END
                              /\ UNCHANGED <<messages, node_params, layer_registry>>
                         [] r.outcome = "result" ->
                              /\ messages' = add_messages(messages, up.messages)
                              /\ node_params' = merge_dictionaries(node_params, up.node_params, 0)
                              /\ layer_registry' = merge_layer_registry(layer_registry, up.layer_registry)
                              /\ node' = IF cb.next_node # "None" THEN cb.next_node ELSE CHATBOT
    /\ lastResume' = [lastResume EXCEPT !.awaiting = FALSE]
    /\ UNCHANGED <<suspended, resume_value, callback, gi_interrupt, pending, declined,
                   nextId, nInputs, nCalls, proposed,
                   avaliable_tools, bound, driver, side>>


----------------------------------------------------------------------------
\* BaseToolInterruptNode

DeclinedResult == [kind |-> "declined", msg |-> "", run |-> 0]

\* First pass: the node reads the stashed package and raises the prompt to
\* the user with interrupt(); the graph pauses and
\* GraphInterface.process_event_value records the interrupt, in the loop of
\* user_prompt (restore_state throws the events of its stream away).
tool_interrupt_raise(i) ==
    /\ node = i
    /\ ~suspended
    /\ resume_value = NoReply
    /\ suspended' = TRUE
    /\ pending' = Append(pending, node_params[i].tool_interrupt)
    /\ gi_interrupt' = IF driver = "user_prompt" THEN node_params[i].tool_interrupt
                       ELSE gi_interrupt
    /\ UNCHANGED <<messages, node_params, node, resume_value, tools, callback, lastCall,
                   lastResume, execCount, declined, nextId, nInputs, nCalls, runs,
                   layer_registry, proposed,
                   avaliable_tools, bound, sub_runs, driver, side>>

\* the default handler of the two built-in interrupt types: what the
\* user's reply does to the tool's flags
confirm_flags(flags, interrupt_type, reply) ==
    IF reply.verdict # "approve" THEN flags
    ELSE IF interrupt_type = EXECUTION_CONFIRMATION
    THEN [flags EXCEPT !.execution_confirmed = TRUE]
    ELSE [flags EXCEPT !.output_confirmed = TRUE]

\* Variant: a node that treats a denial as any other reply
NeverAbandons(reply) == FALSE

\* does the reply abandon the tool call
abandons(reply) == reply.verdict = "deny"

\* Second pass, on Command(resume = {'response': ...}): interpret the reply,
\* rebuild the tool call with the reply merged into its arguments and go
\* back to the Tool Handler Node of the package; a denial abandons the call.
tool_interrupt_resume(i) ==
    /\ node = i
    /\ resume_value # NoReply
    /\ LET package == node_params[i]
           tool_message == package.tool_message
           tool_call == tool_message.tool_calls[Len(tool_message.tool_calls)]
           t == tools_get(package.tool_handler_node, tool_call.name)
           interrupt_type == package.tool_interrupt.interrupt_type
           args == MergeArgs(tool_call.args, resume_value)
           flags == confirm_flags([execution_confirmed |-> tools[t].execution_confirmed,
                                   output_confirmed |-> tools[t].output_confirmed],
                                  interrupt_type, resume_value)
           observed == [awaiting |-> TRUE, tool |-> lastCall.tool, id |-> lastCall.id,
                        args |-> lastCall.args, handler |-> lastCall.handler,
                        interrupt_type |-> lastCall.interrupt.interrupt_type,
                        reply |-> resume_value, output |-> lastCall.output,
                        execs |-> execCount[lastCall.id]]
       IN  IF abandons(resume_value)
           THEN /\ messages' = add_messages(messages,
                                   <<ToolMessage(tool_call.name, DeclinedResult, tool_call.id)>>)
                /\ tools' = [tools EXCEPT ![t].output = NoResult]
                /\ declined' = IF interrupt_type = EXECUTION_CONFIRMATION
                               THEN declined \cup {tool_call.id} ELSE declined
                /\ node' = CHATBOT
                /\ lastResume' = [observed EXCEPT !.awaiting = FALSE]
           ELSE /\ messages' = add_messages(messages,
                                   <<[tool_message EXCEPT !.tool_calls =
                                        <<ToolCall(tool_call.name, args, tool_call.id)>>]>>)
                /\ tools' = [tools EXCEPT ![t] =
                                [execution_confirmed |-> flags.execution_confirmed,
                                 output_confirmed |-> flags.output_confirmed,
                                 output |-> tools[t].output]]
                /\ declined' = declined
                /\ node' = package.tool_handler_node
                /\ lastResume' = observed
    /\ resume_value' = NoReply
    /\ UNCHANGED <<node_params, suspended, callback, gi_interrupt, pending, lastCall,
                   execCount, nextId, nInputs, nCalls, runs, layer_registry, proposed,
                   avaliable_tools, bound, sub_runs, driver, side>>


----------------------------------------------------------------------------
\* The create-project pipeline (nodes/subgraphs/create_project.py)

\* create_project_main: pre-fill the sub-tools' arguments on the way in,
\* emit the consolidated result once tool_outputs is there
create_project_main ==
    /\ node = CREATE_PROJECT_MAIN
    /\ IF "tool_outputs" \notin DOMAIN Get(node_params, CREATE_PROJECT_MAIN, EmptyDict)
       THEN /\ \E prefill \in DtmArgs \cup {NoArgs} :
                 LET update_node_params ==
                        IF prefill = NoArgs THEN node_params
                        ELSE (CREATE_PROJECT_SELECT_DTM_TOOL :> prefill) @@ node_params
                 IN  node_params' = merge_dictionaries(update_node_params, update_node_params, 0)
            /\ node' = CREATE_PROJECT_SELECT_DTM_TOOL_RUNNER
            /\ sub_runs' = <<>>
            /\ UNCHANGED <<messages, nextId, execCount>>
       ELSE /\ messages' = add_messages(messages,
                   <<AIToolCall(CREATE_PROJECT_SUBGRAPH_INTERFACE_TOOL, NoArgs, nextId),
                     ToolMessage(CREATE_PROJECT_SUBGRAPH_INTERFACE_TOOL,
                                 [kind |-> "tool_outputs", msg |-> "", run |-> 0], nextId)>>)
            /\ node_params' = merge_dictionaries(node_params, EmptyDict, 0)
            /\ nextId' = nextId + 1
            /\ execCount' = (nextId :> 0) @@ execCount
            /\ node' = CHATBOT
            /\ UNCHANGED sub_runs
    /\ UNCHANGED <<suspended, resume_value, tools, callback, gi_interrupt, pending,
                   lastCall, lastResume, declined, nInputs, nCalls, runs, layer_registry,
                   proposed,
                   avaliable_tools, bound, driver, side>>

\* A runner: build the sub-tool's call from node_params, install its
\* on_handle_end as the module-level callback, go to the handler
tool_runner(runner, t) ==
    /\ node = runner
    /\ messages' = add_messages(messages,
                       <<AIToolCall(name_of(t), Get(node_params, t, NoArgs), nextId)>>)
    /\ callback' = t
    /\ node_params' = merge_dictionaries(node_params,
           (CREATE_PROJECT_TOOL_HANDLER :> [next_node |-> NextNodeAfter(t)]), 0)
    /\ node' = CREATE_PROJECT_TOOL_HANDLER
    /\ nextId' = nextId + 1
    /\ execCount' = (nextId :> 0) @@ execCount
    /\ UNCHANGED <<suspended, resume_value, tools, gi_interrupt, pending, lastCall,
                   lastResume, declined, nInputs, nCalls, runs, layer_registry, proposed,
                   avaliable_tools, bound, sub_runs, driver, side>>

create_project_select_dtm_tool_runner ==
    tool_runner(CREATE_PROJECT_SELECT_DTM_TOOL_RUNNER, CREATE_PROJECT_SELECT_DTM_TOOL)

create_project_select_buildings_tool_runner ==
    tool_runner(CREATE_PROJECT_SELECT_BUILDINGS_TOOL_RUNNER, CREATE_PROJECT_SELECT_BUILDINGS_TOOL)

create_project_select_infiltration_tool_runner ==
    tool_runner(CREATE_PROJECT_SELECT_INFILTRATION_TOOL_RUNNER, CREATE_PROJECT_SELECT_INFILTRATION_TOOL)

create_project_select_lithology_tool_runner ==
    tool_runner(CREATE_PROJECT_SELECT_LITHOLOGY_TOOL_RUNNER, CREATE_PROJECT_SELECT_LITHOLOGY_TOOL)

create_project_select_other_layers_tool_runner ==
    tool_runner(CREATE_PROJECT_SELECT_OTHER_LAYERS_TOOL_RUNNER, CREATE_PROJECT_SELECT_OTHER_LAYERS_TOOL)

----------------------------------------------------------------------------
\* The three Tool Handler Nodes and their Tool Interrupt Nodes

saferplaces_api_tool_handler == tool_handler(SAFERPLACES_API_TOOL_HANDLER)
safercast_api_tool_handler == tool_handler(SAFERCAST_API_TOOL_HANDLER)
demo_tool_handler == tool_handler(DEMO_TOOL_HANDLER)
create_project_tool_handler == tool_handler(CREATE_PROJECT_TOOL_HANDLER)

ToolInterruptRaise == \E i \in InterruptNodes : tool_interrupt_raise(i)
ToolInterruptResume == \E i \in InterruptNodes : tool_interrupt_resume(i)

UserPrompt == \E reply \in Replies : user_prompt(reply)

\* GraphRegistry.register(thread_id, ...): a new GraphInterface takes the
\* place of the thread's interface, with interrupt = None; its constructor
\* calls restore_state, which streams {'messages': [system message],
\* 'layer_registry': restored} into the thread's checkpoint as a fresh input
\* and drops the events
register ==
    /\ node = END \/ suspended
    /\ nInputs < MaxInputs
    /\ nInputs' = nInputs + 1
    /\ driver' = "restore_state"
    /\ gi_interrupt' = NoInterrupt
    /\ messages' = add_messages(messages, <<SystemMessage("layer_registry")>>)
    /\ node' = CHATBOT
    /\ suspended' = FALSE
    /\ resume_value' = NoReply
    /\ UNCHANGED <<node_params, tools, callback, pending, lastCall, lastResume, execCount,
                   declined, nextId, nCalls, runs, layer_registry, proposed,
                   avaliable_tools, bound, sub_runs, side>>

Next ==
    \/ UserPrompt
    \/ chatbot
    \/ saferplaces_api_tool_handler
    \/ safercast_api_tool_handler
    \/ demo_tool_handler
    \/ create_project_tool_handler
    \/ ToolInterruptRaise
    \/ ToolInterruptResume
    \/ create_project_main
    \/ create_project_select_dtm_tool_runner
    \/ create_project_select_buildings_tool_runner
    \/ create_project_select_infiltration_tool_runner
    \/ create_project_select_lithology_tool_runner
    \/ create_project_select_other_layers_tool_runner

Spec == Init /\ [][Next]_vars

\* the thread with its interface registered again between turns, and the
\* nodes a call of a SaferPlaces tool goes through
NextRegistrations ==
    \/ register
    \/ UserPrompt
    \/ chatbot
    \/ saferplaces_api_tool_handler
    \/ ToolInterruptRaise
    \/ ToolInterruptResume

SpecRegistrations == Init /\ [][NextRegistrations]_vars

\* A runner of the create-project pipeline run by another session of the
\* same process: base_tool_handler_node_callback.callback = on_handle_end
\* is written on the one module-level object; the rest of that runner's
\* update goes to the other session's thread. The other session's turn is
\* taken between two turns of this thread, while it waits for its user
other_session_runner ==
    /\ suspended
    /\ \E t \in create_project_tools_dict : callback' = t
    /\ UNCHANGED <<messages, node_params, node, suspended, resume_value, tools,
                   gi_interrupt, pending, lastCall, lastResume, execCount, declined,
                   nextId, nInputs, nCalls, runs, layer_registry, proposed,
                   avaliable_tools, bound, sub_runs, driver, side>>

\* one thread going through the create-project pipeline while other
\* sessions of the process run theirs
NextPipelines ==
    \/ other_session_runner
    \/ UserPrompt
    \/ chatbot
    \/ create_project_main
    \/ create_project_select_dtm_tool_runner
    \/ create_project_select_buildings_tool_runner
    \/ create_project_select_infiltration_tool_runner
    \/ create_project_select_lithology_tool_runner
    \/ create_project_select_other_layers_tool_runner
    \/ create_project_tool_handler
    \/ ToolInterruptRaise
    \/ ToolInterruptResume

SpecPipelines == Init /\ [][NextPipelines]_vars

\* the reply of a user who approves what is asked
Approval == [verdict |-> "approve", field |-> "none", value |-> "None"]

\* a prompt of the user while nothing is asked of them
fresh_prompt == ~suspended /\ user_prompt(NoReply)

\* user_prompt on a recorded interrupt, by a user who approves every time:
\* Command(resume = {'response': prompt}); these replies are not counted
approve ==
    /\ suspended
    /\ is_resume(gi_interrupt)
    /\ driver' = "user_prompt"
    /\ gi_interrupt' = NoInterrupt
    /\ resume_value' = Approval
    /\ suspended' = FALSE
    /\ pending' = SubSeq(pending, 1, Len(pending) - 1)
    /\ UNCHANGED <<messages, node, avaliable_tools, node_params, tools, callback, lastCall,
                   lastResume, execCount, declined, nextId, nInputs, nCalls, runs,
                   layer_registry, proposed, bound, sub_runs, side>>

\* the thread of a user who approves every confirmation, and the nodes a
\* call of the demo weather tool goes through
NextApprovals ==
    \/ fresh_prompt
    \/ approve
    \/ chatbot
    \/ demo_tool_handler
    \/ ToolInterruptRaise
    \/ ToolInterruptResume

\* the graph runs each node it has scheduled and the user answers each
\* prompt: no step that can be taken is put off forever
SpecApprovals == Init /\ [][NextApprovals]_vars /\ WF_vars(NextApprovals)

----------------------------------------------------------------------------
\* The compiled graph driven directly (graph.stream(input) with an input that
\* carries the messages and, or not, the key 'avaliable_tools'): the router
\* alone, up to the node it hands the turn to.

\* a graph input; a key the input omits keeps the value the thread has
\* an id the caller gives to a message of its own
KnownId == 100

\* what a caller may put under update_messages: nothing, a new message, an
\* edited copy of a message of the thread, or the removal of one
UpdateDirectives ==
    {NoUpdateMessages,
     UpdateMessages(<<SystemMessage("note")>>),
     UpdateMessages(<<Message("human", "edited", KnownId, <<>>, 0, NoResult)>>),
     UpdateMessages(<<RemoveMessage(KnownId)>>)}

graph_input(choice, directive, id) ==
    /\ node = END
    /\ nInputs < MaxInputs
    /\ nInputs' = nInputs + 1
    /\ messages' = add_messages(messages, <<Message("human", "", id, <<>>, 0, NoResult)>>)
    /\ node' = CHATBOT
    /\ avaliable_tools' = IF choice = AbsentChoice THEN avaliable_tools ELSE choice
    /\ node_params' =
          IF directive.set
          THEN merge_dictionaries(node_params,
                   CHATBOT_UPDATE_MESSAGES :> [update_messages |-> directive], 0)
          ELSE node_params
    /\ UNCHANGED <<suspended, resume_value, tools, callback, gi_interrupt,
                   pending, lastCall, lastResume, execCount, declined, nextId, nCalls,
                   runs, layer_registry, proposed, bound, sub_runs, driver, side>>

GraphInput ==
    \E choice \in ToolChoices \cup {AbsentChoice}, directive \in UpdateDirectives,
       id \in {0, KnownId} :
        graph_input(choice, directive, id)

\* the node behind the chatbot that applies a pending update_messages
\* directive: its messages go through the messages reducer and the directive
\* is reset to None; a reducer that raises ends the run with nothing written
chatbot_update_messages ==
    /\ node = CHATBOT_UPDATE_MESSAGES
    /\ IF add_messages_raises(messages, update_messages.messages)
       THEN /\ node' = END
            /\ UNCHANGED <<messages, node_params>>
       ELSE /\ messages' = add_messages(messages, update_messages.messages)
            /\ node_params' = merge_dictionaries(node_params,
                   CHATBOT_UPDATE_MESSAGES :> [update_messages |-> NoUpdateMessages], 0)
            /\ node' = CHATBOT
    /\ UNCHANGED <<suspended, resume_value, tools, callback, gi_interrupt, pending,
                   lastCall, lastResume, execCount, declined, nextId, nInputs, nCalls,
                   runs, layer_registry, proposed, avaliable_tools, bound, sub_runs, driver, side>>

NextRouter ==
    \/ GraphInput
    \/ chatbot
    \/ chatbot_update_messages

SpecRouter == Init /\ [][NextRouter]_vars

\* chatbot, on a reply of the model whose first tool call names a tool that
\* was not among those bound for the turn: the branches on
\* tool_call['name'] are the same ones
chatbot_unbound_reply ==
    /\ node = CHATBOT
    /\ Len(messages) > 0
    /\ ~update_messages.set
    /\ nCalls < MaxToolCalls
    /\ nCalls' = nCalls + 1
    /\ bound' = [ran |-> TRUE, seen |-> avaliable_tools,
                 tools |-> set_tool_choice(state_get_avaliable_tools(avaliable_tools))]
    /\ \E call \in ProposedCalls :
          LET tool_calls == NumberedCalls(<<call>>, nextId)
              ai_message == Message("ai", "", nextId, first_tool_call(tool_calls), 0, NoResult)
              name == ai_message.tool_calls[1].name
          IN  /\ name \notin bound'.tools
              /\ proposed' = tool_calls
              /\ messages' =
                    IF name = CREATE_PROJECT_SUBGRAPH_INTERFACE_TOOL
                    THEN add_messages(messages, <<>>)
                    ELSE add_messages(messages, <<ai_message>>)
              /\ node' = RouteOf(name)
    /\ nextId' = nextId + 1
    /\ execCount' = (nextId :> 0) @@ execCount
    /\ node_params' = merge_dictionaries(node_params, EmptyDict, 0)
    /\ UNCHANGED <<suspended, resume_value, tools, callback, gi_interrupt, pending,
                   lastCall, lastResume, declined, nInputs, runs, layer_registry,
                   avaliable_tools, sub_runs, driver, side>>

\* the router driven by graph inputs, with a model whose replies are not
\* held to the tools it was bound to
NextReplies ==
    \/ GraphInput
    \/ chatbot
    \/ chatbot_update_messages
    \/ chatbot_unbound_reply

SpecReplies == Init /\ [][NextReplies]_vars

----------------------------------------------------------------------------
\* The layer registry on its own: the updates that reach its reducer, from
\* GraphInterface.register_layer and from the tools that register the layers
\* they produce.

\* the src of the layers a session may register
LayerSrcs == {DigitalTwinDem, "saferrain-out/w.tif", "saferrain-out/water-depth.tif",
              "a.tif", "b.tif"}

\* every variable but layer_registry and lr_update
registry_unchanged ==
    <<messages, node_params, node, suspended, resume_value, tools, callback,
      gi_interrupt, pending, lastCall, lastResume, execCount, declined, nextId, nInputs,
      nCalls, runs, proposed, avaliable_tools, bound, sub_runs, driver>>

\* the graph applies an update to layer_registry
registry_update(update) ==
    /\ lr_update' = update
    /\ layer_registry' = merge_layer_registry(layer_registry, update)
    /\ UNCHANGED <<registry_unchanged, m_left, m_right, m_out, sessions>>

\* GraphInterface.register_layer: event_value = {'layer_registry': [layer_dict]}
register_layer == \E src \in LayerSrcs : registry_update(<<src>>)

\* a tool's 'updates': graph_state['layer_registry'] + [new layer]
tool_layer_update == \E src \in LayerSrcs : registry_update(Append(layer_registry, src))

NextRegistry ==
    \/ register_layer
    \/ tool_layer_update

SpecRegistry == Init /\ [][NextRegistry]_vars

----------------------------------------------------------------------------
\* merge_dictionaries on its own: the reducer of node_params applied to two
\* mappings

\* the functions from a subset of the keys to the values
DictsOver(keys, values) ==
    UNION {[ks -> values] : ks \in SUBSET keys}

MergeScalars == {ScalarValue(1), ScalarValue(2)}
MergeLists == {ListValue(<<1>>), ListValue(<<2>>)}
\* mappings of scalars, at the third level
MergeLeafDicts == {DictValue(d) : d \in DictsOver({"z"}, MergeScalars)}
\* mappings at the second level
MergeInnerDicts ==
    {DictValue(d) : d \in DictsOver({"x", "y"}, MergeScalars \cup MergeLists \cup MergeLeafDicts)}
\* the mappings handed to merge_dictionaries
MergeArguments ==
    {DictValue(d) : d \in DictsOver({"A"}, MergeScalars \cup MergeLists \cup MergeInnerDicts)}

InitMerge ==
    /\ InitThread
    /\ lr_update = <<>>
    /\ m_left \in MergeArguments
    /\ m_right \in MergeArguments
    /\ m_out = NotMerged
    /\ InitSessions

\* return merge_dictionaries(left, right)
apply_merge_dictionaries ==
    /\ m_out = NotMerged
    /\ m_out' = merge_dictionaries_values(m_left, m_right)
    /\ UNCHANGED <<registry_unchanged, layer_registry, lr_update, m_left, m_right, sessions>>

NextMerge == apply_merge_dictionaries

SpecMerge == InitMerge /\ [][NextMerge]_vars


----------------------------------------------------------------------------
\* Several sessions on one server (agent_interface/flask_server): every
\* request runs GraphInterface.user_prompt of its thread's interface; the
\* compiled graph and the Agent Tool objects of its handlers are module-level
\* objects that all the sessions share, and nothing takes a lock

sessions_unchanged ==
    <<messages, node_params, node, suspended, resume_value, callback, gi_interrupt,
      pending, lastCall, lastResume, execCount, declined, nextId, nInputs, nCalls, runs,
      layer_registry, proposed, avaliable_tools, bound, sub_runs, lr_update, m_left,
      m_right, m_out, chat, driver>>

\* the tag of the outputs computed for a thread
RunOf(th) == IF th = "t1" THEN 1 ELSE 2

\* the thread an output was computed for
ThreadOfRun(run) == IF run = 1 THEN "t1" ELSE "t2"

\* routes.prompt -> GraphInterface.user_prompt -> build_stream: a recorded
\* interrupt makes the prompt a resume payload and is cleared, else the
\* prompt is a fresh input that starts the graph at the chatbot
begin_stream(s, th) ==
    /\ streams[s].thread = "None"
    /\ LET gi == graph_registry[th]
       IN  IF gi.interrupt # "None"
           THEN /\ graph_registry' = [graph_registry EXCEPT ![th].interrupt = "None"]
                /\ streams' = [streams EXCEPT ![s] =
                       [IdleStream EXCEPT !.thread = th, !.resume = TRUE, !.called = TRUE,
                           !.tool = gi.paused.tool,
                           !.interrupt_type = gi.paused.interrupt_type,
                           !.node = IF gi.paused.tool # ""
                                    THEN SAFERPLACES_API_TOOL_INTERRUPT ELSE END]]
           ELSE /\ graph_registry' = [graph_registry EXCEPT ![th].paused = NotPaused]
                /\ streams' = [streams EXCEPT ![s] =
                       [IdleStream EXCEPT !.thread = th, !.node = CHATBOT]]
    /\ UNCHANGED <<tools, written_for, sessions_unchanged>>

\* the chatbot of a stream: one tool call at most, then a text reply
stream_chatbot(s) ==
    /\ streams[s].node = CHATBOT
    /\ \/ /\ ~streams[s].called
          /\ \E t \in SessionTools :
                streams' = [streams EXCEPT ![s].node = SAFERPLACES_API_TOOL_HANDLER,
                                           ![s].tool = t, ![s].called = TRUE]
       \/ streams' = [streams EXCEPT ![s].node = END]
    /\ UNCHANGED <<tools, graph_registry, written_for, sessions_unchanged>>

\* tool_handler_template up to the call: tool = self.tools[name];
\* tool.graph_state = state
stream_handler_bind(s) ==
    /\ streams[s].node = SAFERPLACES_API_TOOL_HANDLER
    /\ written_for' = [written_for EXCEPT ![streams[s].tool].graph_state = streams[s].thread]
    /\ streams' = [streams EXCEPT ![s].node = "tool.invoke"]
    /\ UNCHANGED <<tools, graph_registry, sessions_unchanged>>

\* tool_handler_template from result = tool.invoke(...) on: the engine runs
\* on the shared tool object as it finds it
stream_handler_invoke(s) ==
    /\ streams[s].node = "tool.invoke"
    /\ LET t == streams[s].tool
           th == streams[s].thread
           w == written_for[t]
           r == Invoke(t, tools[t], NoArgs, Env("bbox", "ok", <<>>), RunOf(th))
           saw == [invoked |-> TRUE,
                   passed |-> r.executed \/ r.replayed,
                   found |-> [w EXCEPT !.output = IF r.replayed THEN ThreadOfRun(r.result.run)
                                                 ELSE "None"]]
       IN  /\ tools' = [tools EXCEPT ![t] =
                          [execution_confirmed |-> r.flags.execution_confirmed,
                           output_confirmed |-> r.flags.output_confirmed,
                           output |-> r.output]]
           /\ written_for' = [written_for EXCEPT ![t] =
                  [graph_state |-> w.graph_state,
                   execution_confirmed |->
                       IF r.flags.execution_confirmed = ToolInit(t).execution_confirmed
                       THEN "None" ELSE w.execution_confirmed,
                   output_confirmed |->
                       IF r.flags.output_confirmed = ToolInit(t).output_confirmed
                       THEN "None" ELSE w.output_confirmed,
                   output |-> IF r.output = NoResult THEN "None"
                              ELSE ThreadOfRun(r.output.run)]]
           /\ streams' = [streams EXCEPT
                  ![s].saw = saw,
                  ![s].interrupt_type = r.interrupt.interrupt_type,
                  ![s].node = CASE r.outcome = "interrupt" -> SAFERPLACES_API_TOOL_INTERRUPT
                                [] r.outcome = "raise" -> END
                                [] r.outcome = "result" -> CHATBOT]
    /\ UNCHANGED <<graph_registry, sessions_unchanged>>

\* the Tool Interrupt Node's first pass: the run pauses, the checkpoint of
\* the thread holds the paused call and process_event_value records the
\* interrupt on the thread's interface
stream_interrupt_raise(s) ==
    /\ streams[s].node = SAFERPLACES_API_TOOL_INTERRUPT
    /\ ~streams[s].resume
    /\ graph_registry' = [graph_registry EXCEPT ![streams[s].thread] =
           [interrupt |-> streams[s].interrupt_type,
            paused |-> [tool |-> streams[s].tool,
                        interrupt_type |-> streams[s].interrupt_type]]]
    /\ streams' = [streams EXCEPT ![s].node = END]
    /\ UNCHANGED <<tools, written_for, sessions_unchanged>>

\* the Tool Interrupt Node's second pass: an approval sets the flag of the
\* interrupt's type on the shared tool object and the call goes back to the
\* handler; a denial drops the call
stream_interrupt_resume(s) ==
    /\ streams[s].node = SAFERPLACES_API_TOOL_INTERRUPT
    /\ streams[s].resume
    /\ \E reply \in Replies :
          LET t == streams[s].tool
              th == streams[s].thread
              type == streams[s].interrupt_type
              flags == confirm_flags([execution_confirmed |-> tools[t].execution_confirmed,
                                      output_confirmed |-> tools[t].output_confirmed],
                                     type, reply)
          IN  IF abandons(reply)
              THEN /\ tools' = [tools EXCEPT ![t].output = NoResult]
                   /\ written_for' = [written_for EXCEPT ![t].output = "None"]
                   /\ streams' = [streams EXCEPT ![s].node = CHATBOT, ![s].resume = FALSE]
              ELSE /\ tools' = [tools EXCEPT ![t] =
                                  [execution_confirmed |-> flags.execution_confirmed,
                                   output_confirmed |-> flags.output_confirmed,
                                   output |-> tools[t].output]]
                   /\ written_for' =
                         IF reply.verdict # "approve" THEN written_for
                         ELSE IF type = EXECUTION_CONFIRMATION
                         THEN [written_for EXCEPT ![t].execution_confirmed = th]
                         ELSE [written_for EXCEPT ![t].output_confirmed = th]
                   /\ streams' = [streams EXCEPT ![s].node = SAFERPLACES_API_TOOL_HANDLER,
                                                  ![s].resume = FALSE]
    /\ graph_registry' = [graph_registry EXCEPT ![streams[s].thread].paused = NotPaused]
    /\ UNCHANGED sessions_unchanged

\* G.stream is exhausted: user_prompt returns and the request is answered
end_stream(s) ==
    /\ streams[s].thread # "None"
    /\ streams[s].node = END
    /\ streams' = [streams EXCEPT ![s] = IdleStream]
    /\ UNCHANGED <<tools, graph_registry, written_for, sessions_unchanged>>

BeginStream == \E s \in StreamIds, th \in Threads : begin_stream(s, th)
StreamChatbot == \E s \in StreamIds : stream_chatbot(s)
StreamHandlerBind == \E s \in StreamIds : stream_handler_bind(s)
StreamHandlerInvoke == \E s \in StreamIds : stream_handler_invoke(s)
StreamInterruptRaise == \E s \in StreamIds : stream_interrupt_raise(s)
StreamInterruptResume == \E s \in StreamIds : stream_interrupt_resume(s)
EndStream == \E s \in StreamIds : end_stream(s)

NextSessions ==
    \/ BeginStream
    \/ StreamChatbot
    \/ StreamHandlerBind
    \/ StreamHandlerInvoke
    \/ StreamInterruptRaise
    \/ StreamInterruptResume
    \/ EndStream

SpecSessions == Init /\ [][NextSessions]_vars


----------------------------------------------------------------------------
\* The events a session hands to its caller (ChatHandler, update_events and
\* the yields of user_prompt). ChatHandler declares `events` and `new_events`
\* as lists in the class body and never assigns them in __init__, so
\* self.events and self.new_events are the same two lists for every
\* ChatHandler; chat_events is assigned per GraphInterface.

events_unchanged ==
    <<registry_unchanged, layer_registry, lr_update, m_left, m_right, m_out, streams,
      graph_registry, written_for>>

\* the k-th message or interrupt a thread's turns produce
Event(th, k) == [thread |-> th, k |-> k]

\* ChatHandler.add_events: self.<list>.append(event), on the list of the class
add_events(list, th, event) == Append(list, event)

\* GraphInterface.update_events, called by build_stream and by
\* process_event_value: the event goes to chat_events of the interface and to
\* both lists of the handler
update_events(th) ==
    /\ turn[th].at \in {"idle", "stream"}
    /\ turn[th].produced < MaxInputs
    /\ LET event == Event(th, turn[th].produced + 1)
       IN  /\ chat_events' = [chat_events EXCEPT ![th] = Append(@, event)]
           /\ events' = add_events(events, th, event)
           /\ new_events' = add_events(new_events, th, event)
    /\ turn' = [turn EXCEPT ![th] = [at |-> "yield", produced |-> @.produced + 1]]
    /\ UNCHANGED <<received, events_unchanged>>

\* yield self.chat_handler.get_new_events: new_events.copy() goes to the
\* caller and the list is cleared
get_new_events(th) ==
    /\ turn[th].at = "yield"
    /\ received' = [received EXCEPT ![th] = Append(@, new_events)]
    /\ new_events' = <<>>
    /\ turn' = [turn EXCEPT ![th].at = "stream"]
    /\ UNCHANGED <<events, chat_events, events_unchanged>>

\* G.stream is exhausted: the turn is over
end_turn(th) ==
    /\ turn[th].at = "stream"
    /\ turn' = [turn EXCEPT ![th].at = "idle"]
    /\ UNCHANGED <<events, new_events, chat_events, received, events_unchanged>>

UpdateEvents == \E th \in Threads : update_events(th)
GetNewEvents == \E th \in Threads : get_new_events(th)
EndTurn == \E th \in Threads : end_turn(th)

NextEvents ==
    \/ UpdateEvents
    \/ GetNewEvents
    \/ EndTurn

SpecEvents == Init /\ [][NextEvents]_vars


----------------------------------------------------------------------------
\* Properties

Called == lastCall.tool # ""
HasAreaInference(t) == t \in {CREATE_PROJECT_SELECT_DTM_TOOL, DEMO_WEATHER_TOOL}
\* the invocation's inference step resolves a place name
ResolvesPlaceName(c) == HasAreaInference(c.tool) /\ IsStr(c.args.area)
\* the value of execution_confirmed with which the invocation reaches the gate
FlagAtGate(c) == c.before.execution_confirmed /\ ~ResolvesPlaceName(c)
\* inference finished, so the validation rules were evaluated
ReachedValidation(c) == c.raised # "inference"
\* the invocation got past inference and validation
PassedValidation(c) == ReachedValidation(c) /\ c.result.kind # "error"
RaisedExecutionConfirmation(c) ==
    c.outcome = "interrupt" /\ c.interrupt.interrupt_type = EXECUTION_CONFIRMATION
ToolMessagesOf(id) ==
    {i \in 1..Len(messages) : messages[i].role = "tool" /\ messages[i].tool_call_id = id}
\* the resume that led to the latest invocation
ResumedCall ==
    lastCall.viaResume /\ ~lastResume.awaiting /\ lastResume.id = lastCall.id
      /\ lastResume.reply.verdict # "deny"

\* C1: _execute is invoked only while execution_confirmed is True; an
\* invocation that reaches the confirmation gate with the flag False, also
\* when an inference step has just set it to False, raises an
\* execution_confirmation Interrupt instead of executing.
C1_ExecuteOnlyWhenConfirmed ==
    Called =>
        /\ lastCall.executed => FlagAtGate(lastCall)
        /\ (PassedValidation(lastCall) /\ ~FlagAtGate(lastCall)) =>
              (RaisedExecutionConfirmation(lastCall) /\ ~lastCall.executed)

\* a call that came in with the flag True, whose inference resolved a
\* place name, was stopped at the gate
C1_Witness ==
    /\ Called /\ ResolvesPlaceName(lastCall) /\ lastCall.before.execution_confirmed
    /\ RaisedExecutionConfirmation(lastCall) /\ ~lastCall.executed

\* C2: when a validation rule fails on the resolved arguments, _execute is
\* not invoked and the result is exactly {error: m}, m the first failing
\* message in rule order; for select_dtm with area None and dtm_file None
\* it is the "Area cordinates or name ..." message.
C2_ValidationPrecedesExecution ==
    /\ (Called /\ ReachedValidation(lastCall)
          /\ check_args(lastCall.tool, lastCall.resolved) # "None") =>
          /\ ~lastCall.executed
          /\ lastCall.outcome = "result"
          /\ lastCall.result = ErrorResult(check_args(lastCall.tool, lastCall.resolved))
    /\ (Called /\ ReachedValidation(lastCall)
          /\ lastCall.tool = CREATE_PROJECT_SELECT_DTM_TOOL
          /\ lastCall.resolved.area = "None" /\ lastCall.resolved.dtm_file = "None") =>
          lastCall.result = ErrorResult(MsgAreaRequired)
    /\ (Called /\ ReachedValidation(lastCall)
          /\ lastCall.tool = CREATE_PROJECT_SELECT_DTM_TOOL
          /\ lastCall.resolved.area = "None" /\ lastCall.resolved.crs = "bad") =>
          lastCall.result = ErrorResult(MsgCrsInvalid)
    /\ \A i \in 1..Len(messages) :
          (messages[i].role = "tool" /\ messages[i].content.kind = "error") =>
              execCount[messages[i].tool_call_id] = 0

\* select_dtm was called with neither area nor dtm_file and the handler
\* reported the error
C2_Witness ==
    /\ Called /\ lastCall.tool = CREATE_PROJECT_SELECT_DTM_TOOL
    /\ lastCall.resolved.area = "None" /\ lastCall.resolved.dtm_file = "None"
    /\ \E i \in ToolMessagesOf(lastCall.id) : messages[i].content = ErrorResult(MsgAreaRequired)

\* C3: a tool constructed with execution_confirmed False, invoked with
\* valid arguments, first raises an execution_confirmation Interrupt
\* without executing; after an approving resume the same tool call is
\* re-invoked with execution_confirmed True and _execute is reached.
DefaultUnconfirmed(t) == t \in ToolNames /\ ~ToolInit(t).execution_confirmed

C3_ApprovalReachesExecute ==
    /\ (Called /\ DefaultUnconfirmed(lastCall.tool) /\ ~lastCall.viaResume
          /\ PassedValidation(lastCall)) =>
          (RaisedExecutionConfirmation(lastCall) /\ ~lastCall.executed)
    /\ (lastResume.awaiting /\ DefaultUnconfirmed(lastResume.tool)
          /\ lastResume.interrupt_type = EXECUTION_CONFIRMATION
          /\ lastResume.reply.verdict = "approve") =>
          /\ node = lastResume.handler
          /\ tools[lastResume.tool].execution_confirmed
          /\ messages[Len(messages)].tool_calls[1].id = lastResume.id
          /\ messages[Len(messages)].tool_calls[1].name = lastResume.tool
    /\ (ResumedCall /\ DefaultUnconfirmed(lastCall.tool)
          /\ lastResume.interrupt_type = EXECUTION_CONFIRMATION
          /\ lastResume.reply.verdict = "approve") =>
          /\ lastCall.before.execution_confirmed
          /\ lastCall.executed
          /\ execCount[lastCall.id] = 1

\* the second proposed call of such a tool has been approved and executed
C3_Witness ==
    /\ ResumedCall /\ DefaultUnconfirmed(lastCall.tool)
    /\ lastResume.reply.verdict = "approve" /\ lastCall.executed
    /\ lastCall.id > 1 /\ execCount[1] = 1


\* C4: for every tool and every terminal outcome of an invocation (error,
\* success, Interrupt raised) _on_tool_end runs exactly once, so that right
\* after the call the two flags equal the tool's declared defaults, and
\* the flags are never reset in the middle of a call.
C4_ResetExactlyOnce ==
    Called =>
        /\ lastCall.resets = 1
        /\ lastCall.flags = on_tool_end(lastCall.tool)
        /\ ~lastCall.midReset

\* the demo weather tool executed: its _execute wrote execution_confirmed
C4_MidCallReset ==
    Called /\ lastCall.tool = DEMO_WEATHER_TOOL /\ lastCall.executed /\ lastCall.midReset

\* C5: once execution_confirmed is True and no inference step resets it,
\* the resolve/validate stage, repeated any number of times, raises no
\* confirmation Interrupt again.
ArgsDomain ==
    [area : {"None", "bbox"}, crs : {"None", "EPSG:4326", "bad"},
     dtm_file : {"None", "s3://dtm", "bad"}, forecast_run : {"None", "2025-01-01"},
     water : {"None", "w.tif"}]

C5_GateNoOpOnceConfirmed ==
    /\ (Called /\ lastCall.before.execution_confirmed /\ ~ResolvesPlaceName(lastCall)) =>
          ~RaisedExecutionConfirmation(lastCall)
    /\ ~Called =>
          \A t \in ToolNames, ka \in ArgsDomain, oc \in BOOLEAN :
             LET st == [execution_confirmed |-> TRUE, output_confirmed |-> oc, output |-> NoResult]
                 r == Invoke(t, st, ka, Env("bbox", "ok", <<>>), 1)
             IN  r.outcome = "interrupt" => r.interrupt.interrupt_type = OUTPUT_CONFIRMATION

\* select_dtm, approved by the user with a bounding box, went through the
\* gate on the re-invocation
C5_Witness ==
    /\ ResumedCall /\ lastCall.tool = CREATE_PROJECT_SELECT_DTM_TOOL
    /\ lastCall.before.execution_confirmed /\ lastCall.args.area = "bbox"
    /\ lastCall.executed

\* C6: for a tool constructed with output_confirmed False, across an
\* output_confirmation Interrupt and its approving resume _execute runs
\* exactly once for the tool call: the resume returns the output computed
\* before the Interrupt and does not execute again.
C6_OutputReplayedNotRecomputed ==
    (ResumedCall /\ ~ToolInit(lastCall.tool).output_confirmed
       /\ lastResume.interrupt_type = OUTPUT_CONFIRMATION
       /\ lastResume.reply.verdict = "approve") =>
        /\ ~lastCall.executed
        /\ lastCall.outcome = "result"
        /\ lastCall.result = lastResume.output
        /\ lastResume.output.kind = "output"
        /\ execCount[lastCall.id] = lastResume.execs
        /\ lastResume.execs >= 1

\* the geospatial tool's output was approved and returned
C6_Witness ==
    /\ ResumedCall /\ lastCall.tool = GEOSPATIAL_OPS_TOOL
    /\ lastResume.interrupt_type = OUTPUT_CONFIRMATION
    /\ lastResume.reply.verdict = "approve"
    /\ lastCall.result.kind = "output" /\ execCount[lastCall.id] = 1

\* C7: a tool call the user declines at the execution-confirmation gate is
\* abandoned as a normal interrupt resolution: _execute is never invoked
\* for it and no error is reported for it.
C7_DeclineAbandonsCall ==
    /\ (lastResume.reply.verdict = "deny"
          /\ lastResume.interrupt_type = EXECUTION_CONFIRMATION) =>
          (lastResume.id \in declined /\ ~lastResume.awaiting)
    /\ \A id \in declined :
          /\ execCount[id] = 0
          /\ \A i \in ToolMessagesOf(id) : messages[i].content.kind # "error"
          /\ ~(node \in HandlerNodes /\ messages[Len(messages)].id = id)

\* a declined call, with the conversation gone on to a later tool call
C7_Witness ==
    /\ 1 \in declined
    /\ Called /\ lastCall.id > 1 /\ lastCall.executed

\* C8: when the tool raises an Interrupt the Tool Handler Node stores
\* {tool_message, tool_interrupt, tool_handler_node} under
\* node_params[tool_interrupt_node_name], goes to its paired Tool Interrupt
\* Node and changes nothing else of the state; it appends no tool-result
\* message.
C8_HandlerOnInterrupt ==
    [][(node \in HandlerNodes /\ node' \in InterruptNodes) =>
          /\ node' = InterruptNodeOf(node)
          /\ messages' = messages
          /\ DOMAIN node_params' = DOMAIN node_params \cup {node'}
          /\ \A k \in DOMAIN node_params : k # node' => node_params'[k] = node_params[k]
          /\ DOMAIN node_params'[node'] = {"tool_message", "tool_interrupt", "tool_handler_node"}
          /\ node_params'[node'].tool_message = messages[Len(messages)]
          /\ node_params'[node'].tool_interrupt = lastCall'.interrupt
          /\ lastCall'.interrupt.interrupt_type \in {EXECUTION_CONFIRMATION, OUTPUT_CONFIRMATION}
          /\ node_params'[node'].tool_handler_node = node
          /\ UNCHANGED <<suspended, resume_value, callback, gi_interrupt, pending>>]_vars

\* the create-project handler has just stashed a package while another
\* subgraph's package is still in node_params
C8_Witness ==
    /\ node = CREATE_PROJECT_TOOL_INTERRUPT /\ ~suspended /\ resume_value = NoReply
    /\ SAFERPLACES_API_TOOL_INTERRUPT \in DOMAIN node_params
    /\ node_params[node].tool_handler_node = CREATE_PROJECT_TOOL_HANDLER
    /\ messages[Len(messages)].role = "ai"

AppendedBy(c) == {i \in 1..Len(messages) : i > c.state_before.n_messages}
\* the latest handled call returned normally
ReturnedNormally == Called /\ lastCall.outcome = "result"

\* C11: when a tool invocation returns normally, the handler appends
\* exactly one tool-result message (role tool, the tool's name, content the
\* result, tool_call_id the handled call's id) and merges the result's
\* updates into state, also when updates carries a messages entry.
C11_ToolMessageAndUpdates ==
    ReturnedNormally =>
        /\ Cardinality(ToolMessagesOf(lastCall.id) \cap AppendedBy(lastCall)) = 1
        /\ \A i \in ToolMessagesOf(lastCall.id) \cap AppendedBy(lastCall) :
              /\ messages[i].name = lastCall.tool
              /\ messages[i].content = lastCall.result
        /\ "messages" \in DOMAIN lastCall.updates =>
              \A k \in 1..Len(lastCall.updates["messages"]) :
                 \E i \in AppendedBy(lastCall) : messages[i] = lastCall.updates["messages"][k]
        /\ "layer_registry" \in DOMAIN lastCall.updates =>
              \A k \in 1..Len(lastCall.updates["layer_registry"]) :
                 src_layer_exists(layer_registry, lastCall.updates["layer_registry"][k])

\* safer_rain_tool returned an error result whose updates carry the system
\* message, and the state holds no tool-result message for the call
C11_Witness ==
    /\ ReturnedNormally /\ lastCall.tool = SAFER_RAIN_TOOL
    /\ "messages" \in DOMAIN lastCall.updates
    /\ ToolMessagesOf(lastCall.id) = {}
    /\ \E i \in AppendedBy(lastCall) : messages[i].role = "system"

\* the handler's latest call is one of the calls of the latest reply
HandledProposal == Called /\ \E k \in 1..Len(proposed) : proposed[k].id = lastCall.id

\* C12: when the latest assistant message proposes several tool calls only
\* the first is honoured: the tool the handler invokes is the one named by
\* the first proposed call and every other proposed call is discarded
\* without being executed.
C12_OnlyFirstCallHonoured ==
    /\ \A i \in 1..Len(messages) : Len(messages[i].tool_calls) <= 1
    /\ HandledProposal =>
          /\ lastCall.id = proposed[1].id
          /\ lastCall.tool = proposed[1].name
          /\ ~lastCall.viaResume => lastCall.args = proposed[1].args
    /\ \A k \in 2..Len(proposed) :
          /\ execCount[proposed[k].id] = 0
          /\ \A i \in 1..Len(messages) :
                /\ messages[i].tool_call_id # proposed[k].id
                /\ \A j \in 1..Len(messages[i].tool_calls) :
                      messages[i].tool_calls[j].id # proposed[k].id

\* the reply proposed two calls of different tools and the handler ran the
\* first
C12_Witness ==
    /\ Len(proposed) = 2 /\ proposed[1].name # proposed[2].name
    /\ HandledProposal /\ lastCall.executed
    /\ lastCall.tool = proposed[1].name

\* the latest handled call left a tool-result or a system message
ReportedToRouter(c) ==
    \E i \in AppendedBy(c) :
       \/ messages[i].role = "tool" /\ messages[i].tool_call_id = c.id
       \/ messages[i].role = "system"

\* C13: no failure inside a tool invocation leaves the handler as a raw
\* exception: an exception raised while a tool executes is converted at
\* the handler boundary into a structured tool-result or a system message
\* before control returns to the router.
C13_NoRawException ==
    (Called /\ lastCall.raised = "execute") =>
        /\ lastCall.outcome = "result"
        /\ ReportedToRouter(lastCall)

\* safer_rain_tool parsed a body that is no JSON: the exception left the
\* handler, the run ended and the tool call has no answer in the messages
C13_Witness ==
    /\ Called /\ lastCall.raised = "execute" /\ lastCall.tool = SAFER_RAIN_TOOL
    /\ lastCall.remote = "500_text" /\ lastCall.outcome = "raise"
    /\ node = END /\ ~ReportedToRouter(lastCall)

\* C14: when the remote API answers a tool's request with HTTP 500 the
\* tool's result is the error "Failed to execute ... 500 - ...", a system
\* message asks the router to explain the failure and offer a retry, and
\* the tool makes no second remote call.
C14_Http500Result ==
    (Called /\ lastCall.executed /\ lastCall.remote \in {"500_json", "500_text"}) =>
        /\ lastCall.outcome = "result"
        /\ lastCall.result.kind = "api_error"
        /\ lastCall.result.msg = MsgFailedToExecute
        /\ \E i \in AppendedBy(lastCall) :
              messages[i].role = "system" /\ messages[i].name = MsgExplainError
        /\ lastCall.remote_calls = 1

\* safer_rain_tool got a 500 with a JSON body and reported "Unexpected
\* response" after one remote call
C14_Witness ==
    /\ Called /\ lastCall.executed /\ lastCall.tool = SAFER_RAIN_TOOL
    /\ lastCall.remote = "500_json" /\ lastCall.outcome = "result"
    /\ lastCall.result.msg = MsgUnexpectedResponse
    /\ lastCall.remote_calls = 1

\* C15: if an inference resolver raises during a tool invocation, the
\* invocation ends with an error tool-result for that tool call; the action
\* is not executed and the call is not retried.
C15_InferenceErrorResult ==
    (Called /\ lastCall.raised = "inference") =>
        /\ ~lastCall.executed
        /\ execCount[lastCall.id] = 0
        /\ lastCall.outcome = "result"
        /\ \E i \in ToolMessagesOf(lastCall.id) \cap AppendedBy(lastCall) :
              messages[i].content.kind = "error"

\* icon2i_ingestor_tool was called without forecast_run: its resolver
\* raised, nothing was executed and no tool-result answers the call
C15_Witness ==
    /\ Called /\ lastCall.raised = "inference" /\ lastCall.tool = ICON2I_INGESTOR_TOOL
    /\ lastCall.args.forecast_run = "None"
    /\ ~lastCall.executed /\ ToolMessagesOf(lastCall.id) = {}
    /\ node = END

\* the confirmation flags of a tool's state
FlagsOf(st) == [execution_confirmed |-> st.execution_confirmed,
                output_confirmed |-> st.output_confirmed]

\* C18: when validation fails, the tool's confirmation flags are the same
\* after the call as before it and the only change to the conversation
\* state is the appended tool-result message carrying the error.
C18_ValidationErrorFrame ==
    [][(node \in HandlerNodes /\ node' # node /\ lastCall'.outcome = "result"
          /\ lastCall'.result.kind = "error") =>
          /\ FlagsOf(tools'[lastCall'.tool]) = lastCall'.before
          /\ messages' = Append(messages,
                ToolMessage(lastCall'.tool, lastCall'.result, lastCall'.id))
          /\ node_params' = node_params
          /\ layer_registry' = layer_registry]_vars

\* select_dtm failed validation inside the create-project pipeline: the
\* error was recorded among the pipeline's tool outputs and the pipeline
\* went on to the buildings step
C18_Witness ==
    /\ Called /\ lastCall.tool = CREATE_PROJECT_SELECT_DTM_TOOL
    /\ lastCall.outcome = "result" /\ lastCall.result.kind = "error"
    /\ node = CREATE_PROJECT_SELECT_BUILDINGS_TOOL_RUNNER
    /\ node_params # lastCall.state_before.node_params
    /\ node_params[CREATE_PROJECT_MAIN].tool_outputs[CREATE_PROJECT_SELECT_DTM_TOOL] = lastCall.result

\* every argument of the tool's schema was given by the caller
FullySpecified(c) == \A f \in SchemaFields(c.tool) : c.args[f] # "None"
\* inference applied once more, whatever the auxiliary model answers, gives
\* the same arguments
InferredAgainSame(c) == \A llm \in LlmAnswers : infer_args(c.tool, c.resolved, llm) = c.resolved
\* a specified value the field's resolver returns as it is: forecast_run is
\* only filled in when missing, an area that is a list of four rounded
\* numbers is already in its resolved form; water is always given its path
KeptWhenSpecified(f, v) ==
    CASE f = "forecast_run" -> TRUE
      [] f = "area" -> v = "bbox"
      [] f = "water" -> FALSE
      [] OTHER -> TRUE

C20_ValidationOnResolved ==
    (Called /\ ReachedValidation(lastCall)) =>
        /\ lastCall.result.kind = "error" <=>
              check_args(lastCall.tool, lastCall.resolved) # "None"
        /\ lastCall.result.kind = "error" =>
              lastCall.result.msg = check_args(lastCall.tool, lastCall.resolved)

\* select_dtm was called with an area of five numbers, which fails the
\* 'area_len' rule as given; inference cut it to four and validation passed
C20_Witness ==
    /\ Called /\ ReachedValidation(lastCall)
    /\ lastCall.tool = CREATE_PROJECT_SELECT_DTM_TOOL
    /\ lastCall.args.area = "bbox5" /\ lastCall.resolved.area = "bbox"
    /\ check_args(lastCall.tool, lastCall.args) = MsgAreaLen
    /\ lastCall.result.kind # "error"

\* the chatbot's latest run read this value of avaliable_tools
RouterSaw(kind) ==
    bound.ran /\ node \notin {CHATBOT, CHATBOT_UPDATE_MESSAGES} /\ bound.seen.kind = kind

\* C21: the router binds the model to all registered tools when
\* avaliable_tools is the empty list, and to no tool when avaliable_tools is
\* None or absent from the state, so that no tool call can be produced in
\* that turn.
C21_ToolBinding ==
    /\ (RouterSaw("list") /\ bound.seen.names = {}) => bound.tools = tools_map
    /\ (RouterSaw("None") \/ RouterSaw("absent")) =>
          /\ bound.tools = {}
          /\ proposed = <<>>
          /\ node = END

\* C21 (amended): the router binds the model to all registered tools when
\* avaliable_tools is the empty list or absent from the state, to the
\* registered tools among the listed names when it is a non-empty list, and
\* to no tool when it is None, so that no tool call is produced in that turn.
C21_ToolBindingAmended ==
    /\ (RouterSaw("list") /\ bound.seen.names = {}) => bound.tools = tools_map
    /\ RouterSaw("absent") => bound.tools = tools_map
    /\ (RouterSaw("list") /\ bound.seen.names # {}) =>
          bound.tools = bound.seen.names \cap tools_map
    /\ RouterSaw("None") =>
          /\ bound.tools = {}
          /\ proposed = <<>>
          /\ node = END
    /\ (bound.ran /\ node \in HandlerNodes) =>
          \A k \in 1..Len(proposed) : proposed[k].name \in bound.tools

\* the graph got an input without the key: the chatbot bound every
\* registered tool and routed a tool call
C21_Witness ==
    /\ RouterSaw("absent") /\ bound.tools = tools_map
    /\ Len(proposed) > 0 /\ node \in HandlerNodes

\* a step of the chatbot that got a reply from the model
ModelReplied == node = CHATBOT /\ node' # CHATBOT

\* the tool X belongs to the subgraph whose Tool Handler Node is h
BelongsTo(X, h) == h \in HandlerNodes /\ X \in HandlerTools(h)

tool_outputs ==
    LET main == Get(node_params, CREATE_PROJECT_MAIN, EmptyDict)
    IN  IF "tool_outputs" \in DOMAIN main THEN main.tool_outputs ELSE EmptyDict

\* C23: in every run of the create-project pipeline the sub-tools are
\* executed in the fixed order DTM, Buildings, Infiltration, Lithology,
\* OtherLayers, each exactly once, and each sub-tool's output is recorded in
\* node_params[MAIN].tool_outputs under that sub-tool's own key.
C23_PipelineOrder ==
    /\ Len(sub_runs) <= Len(create_project_tools_list)
    /\ \A k \in 1..Len(sub_runs) :
          /\ sub_runs[k].tool = create_project_tools_list[k]
          /\ sub_runs[k].key = sub_runs[k].tool
          /\ sub_runs[k].tool \in DOMAIN tool_outputs

\* a pipeline run that reached MAIN again with five recorded outputs, the
\* one under the infiltration key computed by the lithology tool
C23_Witness ==
    /\ Len(sub_runs) = 5
    /\ DOMAIN tool_outputs = {create_project_tools_list[k] : k \in 1..5}
    /\ sub_runs[3] = [tool |-> CREATE_PROJECT_SELECT_LITHOLOGY_TOOL,
                      key |-> CREATE_PROJECT_SELECT_INFILTRATION_TOOL]
    /\ sub_runs[4] = [tool |-> CREATE_PROJECT_SELECT_LITHOLOGY_TOOL,
                      key |-> CREATE_PROJECT_SELECT_LITHOLOGY_TOOL]
    /\ node = CREATE_PROJECT_MAIN

\* create_project_main takes its else branch: the two interface messages
\* are emitted and the subgraph ends
EmitsConsolidated == node = CREATE_PROJECT_MAIN /\ node' = CHATBOT

ConsolidatedResults ==
    {k \in 1..Len(messages) :
        messages[k].role = "tool" /\ messages[k].name = CREATE_PROJECT_SUBGRAPH_INTERFACE_TOOL}

\* the turn is over and the thread is not paused at an interrupt
TurnCompleted == node = END /\ ~suspended

\* the directives of node_params that a node has acted upon
ActedUponDirectives ==
    {i \in InterruptNodes : i \in DOMAIN node_params}
      \cup {h \in HandlerNodes : "next_node" \in DOMAIN Get(node_params, h, EmptyDict)}
      \cup {m \in {CREATE_PROJECT_MAIN} : DOMAIN tool_outputs # {}}

\* C25: a node_params directive that a node has acted upon (the stashed
\* interrupt package, a pipeline's MAIN.tool_outputs, a handler's next_node)
\* is cleared or overwritten by the end of that turn, so that it does not
\* fire again on a later turn; in particular a second create-project request
\* starts again from argument pre-fill instead of immediately emitting the
\* previous run's outputs.
C25_DirectivesTransient ==
    [][/\ TurnCompleted' => ActedUponDirectives' = {}
       /\ (node = CHATBOT /\ node' = CREATE_PROJECT_MAIN) => DOMAIN tool_outputs = {}
       /\ (node = CREATE_PROJECT_MAIN /\ ConsolidatedResults # {}) =>
              node' = CREATE_PROJECT_SELECT_DTM_TOOL_RUNNER]_vars

\* a second create-project request was answered at once with the outputs
\* the first run left in node_params
C25_Witness ==
    /\ Cardinality(ConsolidatedResults) = 2
    /\ Len(sub_runs) = 5
    /\ Cardinality(DOMAIN tool_outputs) = 5
    /\ nCalls = 2

\* no two entries of the registry have the same src
NoTwoSameSrc(registry) ==
    \A i, j \in 1..Len(registry) : registry[i] = registry[j] => i = j

\* every entry of the update is registered already
RepeatsRegistered(registry, update) ==
    \A k \in 1..Len(update) : src_layer_exists(registry, update[k])

\* C26: after any sequence of tool executions and layer registrations,
\* layer_registry contains no two entries with the same src; merging an
\* update that repeats already-registered entries (such as the whole old
\* registry plus a duplicate) leaves exactly one entry per src and the
\* length unchanged.
C26_RegistryDedup ==
    [][/\ NoTwoSameSrc(layer_registry')
       /\ RepeatsRegistered(layer_registry, lr_update') =>
              Len(layer_registry') = Len(layer_registry)
       /\ \A k \in 1..Len(lr_update') : src_layer_exists(layer_registry', lr_update'[k])]_vars

\* a tool handed back the whole registry plus a layer that was registered
\* already, and the registry kept its two entries
C26_Witness ==
    /\ Len(layer_registry) = 2
    /\ lr_update = Append(layer_registry, layer_registry[1])

\* out is the deep merge of right into left: every key of either side is
\* there; two mappings under one key are merged the same way, two lists
\* are concatenated, any other value of right takes the place of left's
RECURSIVE IsDeepMerge(_, _, _)
IsDeepMerge(out, left, right) ==
    /\ out.t = "dict"
    /\ DOMAIN out.d = (DOMAIN left.d) \cup (DOMAIN right.d)
    /\ \A key \in DOMAIN out.d :
          IF key \notin DOMAIN right.d THEN out.d[key] = left.d[key]
          ELSE IF key \notin DOMAIN left.d THEN out.d[key] = right.d[key]
          ELSE IF left.d[key].t = "dict" /\ right.d[key].t = "dict"
               THEN IsDeepMerge(out.d[key], left.d[key], right.d[key])
          ELSE IF left.d[key].t = "list" /\ right.d[key].t = "list"
               THEN out.d[key] = ListValue(left.d[key].l \o right.d[key].l)
          ELSE out.d[key] = right.d[key]

\* C27: for all mappings left and right, merging right into node_params
\* left is a deep merge: where both hold a mapping under the same key the
\* result holds the recursive merge of the two at every depth (no key of
\* either side is lost), list values are concatenated, and scalar values are
\* overwritten by right; merging {A:{x:1}} into {A:{y:2}} yields
\* {A:{x:1,y:2}}.
C27_MergeIsDeep ==
    m_out # NotMerged => IsDeepMerge(m_out, m_left, m_right)

\* merging {A: {}} into {A: {y: 2}} gave {A: {}}: the key y is lost
C27_Witness ==
    /\ m_left = DictValue("A" :> DictValue("y" :> ScalarValue(2)))
    /\ m_right = DictValue("A" :> DictValue(EmptyDict))
    /\ m_out = DictValue("A" :> DictValue(EmptyDict))

\* the sequence before is a prefix of the sequence after
IsPrefix(before, after) ==
    Len(before) <= Len(after) /\ SubSeq(after, 1, Len(before)) = before

\* C28: messages is append-only: after any node executes, the previous
\* message sequence is a prefix of the new one (no node's update removes,
\* reorders or replaces an existing message).
C28_MessagesAppendOnly == [][node # END => IsPrefix(messages, messages')]_vars

\* the update node has put an edited copy in the place of the thread's first
\* message
C28_Witness ==
    /\ node = CHATBOT
    /\ ~update_messages.set
    /\ Len(messages) > 0
    /\ messages[1].name = "edited"


\* the requests that work on a thread and have not finished their turn
Working(th) == {s \in StreamIds : streams[s].thread = th /\ streams[s].node # END}

\* C29: for one thread_id turns never overlap: a prompt is processed only
\* after the previous turn of that thread has fully completed or fully
\* suspended at an interrupt, even when two prompts for the same thread
\* arrive concurrently.
C29_TurnsNeverOverlap == \A th \in Threads : Cardinality(Working(th)) <= 1

\* a fresh prompt of a thread is at the chatbot while another request of the
\* same thread is inside tool.invoke
C29_Witness ==
    \E a, b \in StreamIds :
        /\ a # b
        /\ streams[a].thread = streams[b].thread
        /\ streams[a].node = "tool.invoke"
        /\ streams[b].node = CHATBOT
        /\ ~streams[b].called

\* the attributes an invocation read had been written for its own session
OwnSession(s) ==
    LET f == streams[s].saw.found
        th == streams[s].thread
    IN  /\ f.graph_state = th
        /\ f.execution_confirmed \in {"None", th}
        /\ f.output_confirmed \in {"None", th}
        /\ f.output \in {"None", th}

\* C30: when several sessions dispatch to the same Agent Tool object, no
\* invocation observes execution_confirmed, output_confirmed or graph_state
\* written on behalf of another session; in particular one session's
\* approval never lets another session's call pass the confirmation gate.
C30_ToolIsolation == \A s \in StreamIds : streams[s].saw.invoked => OwnSession(s)

\* a call of one session got past the confirmation gate of the digital twin
\* tool on the approval another session gave
C30_Witness ==
    \E s \in StreamIds :
        /\ streams[s].tool = DIGITAL_TWIN_TOOL
        /\ streams[s].saw.passed
        /\ streams[s].saw.found.execution_confirmed \notin {"None", streams[s].thread}


\* the events of a sequence
EventsOf(seq) == {seq[i] : i \in 1..Len(seq)}

\* C31: sessions with different thread_ids are independent: the event
\* packets one session receives contain only what that session's own turns
\* produced, whatever prompts are processed for other sessions in between.
C31_SessionsIndependent ==
    \A th \in Threads :
        \A i \in 1..Len(received[th]) :
            \A e \in EventsOf(received[th][i]) : e.thread = th

\* each of two sessions got a packet while the other one's turn was under way
C31_Witness ==
    /\ \A th \in Threads : Len(received[th]) > 0
    /\ \E th \in Threads : turn[th].at # "idle"


\* a user text was handed to build_stream in this step
TextDelivered == driver' = "user_prompt" /\ nInputs' # nInputs

\* C32: a user text for a thread is delivered to the graph as a resume
\* payload if and only if that thread is suspended at an unresolved
\* interrupt, and as a fresh prompt otherwise; this holds after any sequence
\* of prompts, interrupts and session (re-)registrations for the thread_id.
C32_ResumeIffSuspended ==
    [][TextDelivered => ((resume_value' # NoReply) <=> suspended)]_vars

\* the thread is paused at an interrupt that the stream of restore_state
\* ran into, and its interface holds no interrupt
C32_Witness ==
    /\ suspended
    /\ driver = "restore_state"
    /\ gi_interrupt = NoInterrupt


\* the tool call of the i-th message has a tool-result message after it
HasToolResult(i) ==
    \E j \in (i + 1)..Len(messages) :
        /\ messages[j].role = "tool"
        /\ messages[j].tool_call_id = messages[i].tool_calls[1].id

\* the assistant messages that carry a tool call
ToolCallMessages == {i \in 1..Len(messages) : messages[i].role = "ai" /\ messages[i].tool_calls # <<>>}

\* C33: at the end of every turn that completes without suspension, each
\* assistant message that carries a tool call is followed by a tool-result
\* message with the same tool_call_id.
C33_NoUnansweredToolCall ==
    (node = END /\ ~suspended) => \A i \in ToolCallMessages : HasToolResult(i)

\* a turn is over in which a tool ran and its call was answered
C33_Witness ==
    /\ node = END
    /\ ~suspended
    /\ ToolCallMessages # {}
    /\ \A i \in ToolCallMessages : HasToolResult(i)


\* the call under way has reached _execute, or has ended on a validation
\* error or an exception
CallSettled ==
    \/ lastCall.id \in DOMAIN execCount /\ execCount[lastCall.id] > 0
    \/ lastCall.outcome = "raise"
    \/ lastCall.outcome = "result" /\ lastCall.result.kind = "error"

\* C34: if the user approves every confirmation prompt, a tool call with
\* valid arguments reaches _execute after finitely many prompts, also for
\* the tools whose inference step sets execution_confirmed to False on each
\* resolution of a place-name area.
C34_ApprovedCallExecutes == suspended ~> CallSettled

\* the demo weather tool asks for the confirmation the user has just given
C34_Witness ==
    /\ suspended
    /\ lastCall.tool = DEMO_WEATHER_TOOL
    /\ lastCall.viaResume
    /\ lastResume.reply = Approval
    /\ lastCall.interrupt.interrupt_type = EXECUTION_CONFIRMATION


\* the successor the runner of the call under way wrote for the handler
IntendedSuccessor ==
    Get(node_params, CREATE_PROJECT_TOOL_HANDLER, EmptyDict).next_node

\* the pipeline's handler returns a result and leaves for another node
HandlerFinishes ==
    /\ node = CREATE_PROJECT_TOOL_HANDLER
    /\ node' \notin {CREATE_PROJECT_TOOL_HANDLER, CREATE_PROJECT_TOOL_INTERRUPT, END}

\* C35: when the pipeline's handler finishes sub-tool T it records the
\* output under T's own key and continues to T's successor, also when T was
\* suspended by an interrupt and resumed, or another session ran a pipeline
\* step in between.
C35_OwnKeyAndSuccessor ==
    [][HandlerFinishes =>
          LET T == CHOOSE t \in create_project_tools_dict : NextNodeAfter(t) = IntendedSuccessor
          IN  /\ node' = IntendedSuccessor
              /\ T \in DOMAIN tool_outputs'
              /\ tool_outputs'[T] = lastCall'.result]_vars

\* the DTM call, resumed after its confirmation, is recorded under the key
\* of the runner another session ran meanwhile
C35_Witness ==
    /\ Len(sub_runs) = 1
    /\ sub_runs[1].tool = CREATE_PROJECT_SELECT_DTM_TOOL
    /\ sub_runs[1].key # CREATE_PROJECT_SELECT_DTM_TOOL
    /\ lastCall.viaResume
    /\ CREATE_PROJECT_SELECT_DTM_TOOL \notin DOMAIN tool_outputs


\* the pipeline's handler gets an {error: ...} result from the sub-tool
HandlerGetsError ==
    /\ node = CREATE_PROJECT_TOOL_HANDLER
    /\ lastCall' # lastCall
    /\ lastCall'.outcome = "result"
    /\ lastCall'.result.kind = "error"

PipelineSteps ==
    {NextNodeAfter(t) : t \in create_project_tools_dict}

\* C36: a multi-step pipeline advances from a sub-tool to the next step
\* only when the sub-tool returned a non-error result: an {error: ...}
\* result is not recorded as the sub-tool's output and does not start the
\* next runner.
C36_ErrorDoesNotAdvance ==
    [][HandlerGetsError => (tool_outputs' = tool_outputs /\ node' \notin PipelineSteps)]_vars

\* the Buildings runner is about to run with the DTM step's validation
\* error recorded as the DTM output
C36_Witness ==
    /\ node = CREATE_PROJECT_SELECT_BUILDINGS_TOOL_RUNNER
    /\ CREATE_PROJECT_SELECT_DTM_TOOL \in DOMAIN tool_outputs
    /\ tool_outputs[CREATE_PROJECT_SELECT_DTM_TOOL].kind = "error"
    /\ execCount[lastCall.id] = 0


\* the last call came to a terminal result, so _on_tool_end has run
EndedByOnToolEnd ==
    /\ lastCall.tool \in ToolNames
    /\ lastCall.outcome = "result"
    /\ lastCall.resets > 0

\* C37: for every Agent Tool the values of execution_confirmed and
\* output_confirmed restored by _on_tool_end equal the values the tool has
\* right after construction, so the first invocation of a tool and every
\* later one start from the same gate state.
C37_EndRestoresConstruction ==
    EndedByOnToolEnd =>
        /\ lastCall.flags = ToolInit(lastCall.tool)
        /\ tools[lastCall.tool].execution_confirmed = ToolInit(lastCall.tool).execution_confirmed
        /\ tools[lastCall.tool].output_confirmed = ToolInit(lastCall.tool).output_confirmed

\* the DTM sub-tool went straight to _execute on its first call, as
\* constructed, and is left asking for a confirmation on the next one
C37_Witness ==
    /\ lastCall.tool = CREATE_PROJECT_SELECT_DTM_TOOL
    /\ lastCall.outcome = "result"
    /\ lastCall.executed
    /\ ~lastCall.viaResume
    /\ lastCall.before = ToolInit(CREATE_PROJECT_SELECT_DTM_TOOL)
    /\ ~tools[CREATE_PROJECT_SELECT_DTM_TOOL].execution_confirmed


\* the nodes the router enters a subgraph at
SubgraphEntries ==
    {SAFERPLACES_API_TOOL_HANDLER, SAFERCAST_API_TOOL_HANDLER, DEMO_TOOL_HANDLER,
     CREATE_PROJECT_MAIN}

\* C38: a tool's handler runs in a turn only if that tool was among the
\* tools bound to the model for that turn: with avaliable_tools = None, or
\* for a name that is not in a non-empty avaliable_tools or not in the
\* router's tool map, the router dispatches no subgraph for it even if the
\* model's reply names it.
C38_DispatchOnlyBound ==
    (bound.ran /\ node \in SubgraphEntries) => proposed[1].name \in bound.tools

\* bound to the digital twin tool alone, the router has sent a call of the
\* safer-rain tool to the SaferPlaces handler
C38_Witness ==
    /\ node = SAFERPLACES_API_TOOL_HANDLER
    /\ bound.seen = ListChoice({DIGITAL_TWIN_TOOL})
    /\ bound.tools = {DIGITAL_TWIN_TOOL}
    /\ proposed[1].name = SAFER_RAIN_TOOL
    /\ messages[Len(messages)].tool_calls[1].name = SAFER_RAIN_TOOL


\* C39: a pending update_messages directive makes the chatbot pass through
\* CHATBOT_UPDATE_MESSAGES exactly once: the directive's messages are
\* applied to the thread once, the directive is reset to None, and the next
\* chatbot step, finding no directive, invokes the model instead of going
\* back to the update node.
C39_DirectiveAppliedOnce ==
    [][node = CHATBOT_UPDATE_MESSAGES =>
          /\ messages' = add_messages(messages, update_messages.messages)
          /\ ~update_messages'.set
          /\ node' = CHATBOT]_vars

\* a later turn is at the update node again with the directive of an
\* earlier turn, which removes a message the thread does not hold
C39_Witness ==
    /\ node = CHATBOT_UPDATE_MESSAGES
    /\ nInputs = 2
    /\ update_messages.set
    /\ add_messages_raises(messages, update_messages.messages)
    /\ \A i \in 1..Len(messages) : messages[i].role = "human"


\* C40: merging into node_params an update that repeats the current content
\* of node_params leaves that content unchanged; in particular list-valued
\* entries such as a pre-filled area are not duplicated.
C40_RepeatedUpdateChangesNothing ==
    (m_out # NotMerged /\ m_right = m_left) => m_out = m_left

\* an update equal to the dictionary it is merged into, holding a list
\* under a key: the merged list has each item twice
C40_Witness ==
    /\ m_out # NotMerged
    /\ m_right = m_left
    /\ \E key \in DOMAIN m_left.d :
          /\ m_left.d[key].t = "list"
          /\ m_left.d[key].l # <<>>
          /\ m_out.d[key].l = m_left.d[key].l \o m_left.d[key].l

====
